---- MODULE Spec2Model ----
(***************************************************************************)
(* A model of the control-record parser (parse_deb822, parse_changes) and  *)
(* of the dependency breakage analysis (check_reverse_depends) of          *)
(* daklib/utils.py.                                                        *)
(*                                                                         *)
(* Text is modelled at character level: a string is a sequence of          *)
(* one-character strings, so that splitting, stripping and matching are    *)
(* computed the way the code computes them.                                *)
(***************************************************************************)
EXTENDS Integers, Sequences, FiniteSets, TLC

VARIABLES
    \* ---- check_reverse_depends ----
    removals,          \* parameter: the caller-supplied removal set
    include_arch_all,  \* parameter
    quiet,             \* parameter
    cruft,             \* parameter
    rdep_todo,         \* architectures of rdep_architectures not yet iterated
    architecture,      \* the loop variable of line 1042
    processed,         \* history: the architectures whose rows were scanned
    rows,              \* the rows the binary query returned for `architecture`
    virtual_packages,  \* the provides counter of the current architecture
    removal_set,       \* line 1030, updated at line 1088
    all_broken,        \* the binary breakage map of line 1024
    all_broken_bd,     \* the build-dependency breakage map of line 1140
    dep_problem,       \* line 1022, the value returned
    broken_log,        \* history: every clause on which line 1107 held
    src_meta,          \* history: the build-dependency metadata the query read
    src_rows,          \* the rows the source query returned
    output,            \* what was printed
    rpc,               \* position in check_reverse_depends
    \* ---- parse_deb822 / parse_changes ----
    entry,             \* the function called: "parse_deb822" or "parse_changes"
    contents,          \* the payload, signed_file.contents decoded
    signed,            \* whether the input carries a valid signature
    keyrings,          \* parameter: "None" or a list of keyrings
    signing_rules,     \* parameter: -1, 0 or 1
    dsc_file,          \* parameter of parse_changes
    indexed_lines,     \* lines 115-119
    index,             \* line 122
    first,             \* line 123
    field,             \* the local of line 132, unbound until a field is met
    changes,           \* line 105
    error,             \* line 104
    raised,            \* the exception the call ended with, if any
    ppc,               \* position in the parser
    \* ---- build_file_list ----
    has_field,         \* whether `field` is a key of changes (line 289)
    format_valid,      \* whether validate_changes_format accepts (line 294)
    is_a_dsc,          \* parameter
    list_field,        \* parameter `field`
    list_value,        \* changes[field]
    list_lines,        \* changes[field].split('\n'), line 299
    list_pos,          \* how many of these lines the loop has taken
    files,             \* line 286, the value returned
    list_raised,       \* the exception the call ended with, if any
    lpc,               \* position in build_file_list
    \* ---- check_dsc_files ----
    dsc_files,         \* parameter: the filenames, in the order of the mapping
    dsc_format,        \* dsc['format']
    dsc_pos,           \* how many filenames the loop of line 241 has taken
    has,               \* line 227, the occurrence counters
    rejmsg,            \* line 223, the value returned
    classified,        \* history: the filenames tested against the table
    dpc,               \* position in check_dsc_files
    \* ---- gpg_get_key_addresses ----
    key_uid_email_cache,  \* line 67, shared by all threads
    fingerprint,       \* per thread: the parameter of the call in progress
    addresses,         \* per thread: the local of lines 746-760
    result,            \* per thread: what the last call returned
    stored,            \* history: for each fingerprint, the list stored first
    lookups,           \* per thread: the calls made so far
    cpc,               \* per thread: position in gpg_get_key_addresses
    \* ---- check_valid ----
    overrides,         \* parameter: the overrides, without their 'valid' key
    valid,             \* o['valid'] of each override, "unset" until assigned
    all_valid,         \* line 66, the value returned
    override_pos,      \* how many overrides the loop has taken
    vpc,               \* position in check_valid
    \* ---- send_mail ----
    message,           \* parameter: the To, Cc and Bcc headers of the message
    whitelists_given,  \* history: the parameter whitelists as passed
    whitelists,        \* the parameter, rebound at line 352, extended at line 354
    mail_whitelist,    \* Cnf: Dinstall::MailWhiteList
    no_mail,           \* Cnf: Dinstall::Options::No-Mail
    msg,               \* line 338, the headers of the parsed message
    whitelist,         \* line 356, the compiled patterns
    call_sendmail,     \* line 347
    handed,            \* the headers of the message given to the sendmail command
    mpc,               \* position in send_mail
    \* ---- find_next_free ----
    orig_dest,         \* line 529, the parameter dest
    too_many,          \* parameter
    lexists,           \* the paths that exist
    dest,              \* the path probed next, in the end the path returned
    extra,             \* line 528
    probed,            \* history: the paths os.path.lexists was asked about
    fpc                \* position in find_next_free

rdepVars == <<removals, include_arch_all, quiet, cruft, rdep_todo, architecture,
              processed, rows, virtual_packages, removal_set, all_broken, all_broken_bd,
              dep_problem, broken_log, src_meta,
              src_rows, output, rpc>>

parseVars == <<entry, contents, signed, keyrings, signing_rules, dsc_file,
               indexed_lines, index, first, field, changes, error, raised, ppc>>

listVars == <<has_field, format_valid, is_a_dsc, list_field, list_value, list_lines,
              list_pos, files, list_raised, lpc>>

\* The variables of the functions other than check_reverse_depends,
\* parse_deb822 and parse_changes.
dscVars == <<dsc_files, dsc_format, dsc_pos, has, rejmsg, classified, dpc>>

cacheVars == <<key_uid_email_cache, fingerprint, addresses, result, stored, lookups, cpc>>

validVars == <<overrides, valid, all_valid, override_pos, vpc>>

mailVars == <<message, whitelists_given, whitelists, mail_whitelist, no_mail, msg, whitelist,
              call_sendmail, handed, mpc>>

freeVars == <<orig_dest, too_many, lexists, dest, extra, probed, fpc>>

laterVars == <<listVars, dscVars, cacheVars, validVars, mailVars, freeVars>>

\* The variables of the functions other than the one named.
besideList == <<rdepVars, parseVars, dscVars, cacheVars, validVars, mailVars, freeVars>>
besideDsc == <<rdepVars, parseVars, listVars, cacheVars, validVars, mailVars, freeVars>>
besideCache == <<rdepVars, parseVars, listVars, dscVars, validVars, mailVars, freeVars>>
besideValid == <<rdepVars, parseVars, listVars, dscVars, cacheVars, mailVars, freeVars>>
besideMail == <<rdepVars, parseVars, listVars, dscVars, cacheVars, validVars, freeVars>>
besideFree == <<rdepVars, parseVars, listVars, dscVars, cacheVars, validVars, mailVars>>

vars == <<rdepVars, parseVars, laterVars>>

\* The parser is not running.
Unbound == [bound |-> FALSE, name |-> <<>>]
NotRaised == [kind |-> "", why |-> "", text |-> <<>>, index |-> 0, missing |-> <<>>]
EmptyDict == [x \in {} |-> <<>>]
ParseIdle ==
    /\ entry = ""
    /\ contents = <<>>
    /\ signed = ""
    /\ keyrings = ""
    /\ signing_rules = 0
    /\ dsc_file = FALSE
    /\ indexed_lines = <<>>
    /\ index = 0
    /\ first = -1
    /\ field = Unbound
    /\ changes = EmptyDict
    /\ error = <<>>
    /\ raised = NotRaised
    /\ ppc = "idle"

\* build_file_list is not running.
NoListError == [kind |-> "", text |-> <<>>]
ListIdle ==
    /\ has_field = FALSE
    /\ format_valid = FALSE
    /\ is_a_dsc = FALSE
    /\ list_field = ""
    /\ list_value = <<>>
    /\ list_lines = <<>>
    /\ list_pos = 0
    /\ files = [x \in {} |-> <<>>]
    /\ list_raised = NoListError
    /\ lpc = "idle"

\* check_dsc_files is not running.
DscIdle ==
    /\ dsc_files = <<>>
    /\ dsc_format = ""
    /\ dsc_pos = 0
    /\ has = [t \in {} |-> 0]
    /\ rejmsg = <<>>
    /\ classified = {}
    /\ dpc = "idle"

\* The threads that call gpg_get_key_addresses.
Threads == {"t1", "t2"}

\* No thread is in gpg_get_key_addresses and the cache is empty.
NoList == [known |-> FALSE, list |-> <<>>]
CacheIdle ==
    /\ key_uid_email_cache = [f \in {} |-> <<>>]
    /\ fingerprint = [t \in Threads |-> ""]
    /\ addresses = [t \in Threads |-> NoList]
    /\ result = [t \in Threads |-> NoList]
    /\ stored = [f \in {} |-> <<>>]
    /\ lookups = [t \in Threads |-> 0]
    /\ cpc = [t \in Threads |-> "idle"]

\* check_valid is not running.
ValidIdle ==
    /\ overrides = <<>>
    /\ valid = <<>>
    /\ all_valid = TRUE
    /\ override_pos = 0
    /\ vpc = "idle"

\* A header that the message does not have.
NoHeader == [present |-> FALSE, items |-> <<>>]

NoHeaders == [To |-> NoHeader, Cc |-> NoHeader, Bcc |-> NoHeader]

\* whitelists = None.
NoWhitelists == [none |-> TRUE, paths |-> <<>>]

\* send_mail is not running.
MailIdle ==
    /\ message = NoHeaders
    /\ whitelists_given = NoWhitelists
    /\ whitelists = NoWhitelists
    /\ mail_whitelist = ""
    /\ no_mail = FALSE
    /\ msg = NoHeaders
    /\ whitelist = <<>>
    /\ call_sendmail = TRUE
    /\ handed = NoHeaders
    /\ mpc = "idle"

\* find_next_free is not running.
FreeIdle ==
    /\ orig_dest = <<>>
    /\ too_many = 0
    /\ lexists = {}
    /\ dest = <<>>
    /\ extra = 0
    /\ probed = <<>>
    /\ fpc = "idle"

\* None of the other functions is running.
LaterIdle == ListIdle /\ DscIdle /\ CacheIdle /\ ValidIdle /\ MailIdle /\ FreeIdle

\* None of the later functions but the one named is running.
BesideListIdle == DscIdle /\ CacheIdle /\ ValidIdle /\ MailIdle /\ FreeIdle
BesideDscIdle == ListIdle /\ CacheIdle /\ ValidIdle /\ MailIdle /\ FreeIdle
BesideCacheIdle == ListIdle /\ DscIdle /\ ValidIdle /\ MailIdle /\ FreeIdle
BesideValidIdle == ListIdle /\ DscIdle /\ CacheIdle /\ MailIdle /\ FreeIdle
BesideMailIdle == ListIdle /\ DscIdle /\ CacheIdle /\ ValidIdle /\ FreeIdle
BesideFreeIdle == ListIdle /\ DscIdle /\ CacheIdle /\ ValidIdle /\ MailIdle

(***************************************************************************)
(*                       check_reverse_depends                             *)
(***************************************************************************)

\* The binary packages and the names a Depends or Provides may mention.
\* "v" is a purely virtual name; "d" is a real package that "b" may also
\* provide.
Pkgs == {"a", "b", "d"}
Names == Pkgs \cup {"v"}

\* all_arches (lines 1025-1029) of the suite analysed.
AllArches == {"amd64"}

\* A dependency alternative as apt_pkg returns it: (name, version, op).
Alt(n) == <<n, "", "">>
AltVer(n) == <<n, "1", ">=">>

\* The value of a Depends / Build-Depends metadata column: absent (None),
\* text apt_pkg rejects, or text that parses to a list of clauses.
NoDepends == [given |-> FALSE, ok |-> TRUE, clauses |-> <<>>]
Unparseable == [given |-> TRUE, ok |-> FALSE, clauses |-> <<>>]
Depends(cs) == [given |-> TRUE, ok |-> TRUE, clauses |-> cs]

\* The value of a Provides column: absent (None) or a comma separated list,
\* here already split and stripped (lines 1077-1078).
NoProvides == [given |-> FALSE, names |-> <<>>]
Provides(ns) == [given |-> TRUE, names |-> ns]

SourceOf(p) == IF p = "b" THEN "b" ELSE "a"
ComponentOf(p) == IF p = "b" THEN "contrib" ELSE "main"

Absent == [present |-> FALSE, depends |-> NoDepends, provides |-> NoProvides]
Row(d, pr) == [present |-> TRUE, depends |-> d, provides |-> pr]

DependsOf(p) ==
    CASE p = "a" -> {Unparseable,
                     Depends(<< <<Alt("v")>> >>),
                     Depends(<< <<AltVer("b"), Alt("d")>> >>),
                     Depends(<< <<AltVer("b"), Alt("d")>>, <<Alt("b")>> >>),
                     Depends(<< <<Alt("d")>>, <<Alt("v")>> >>)}
      [] p = "b" -> {NoDepends}
      [] p = "d" -> {NoDepends, Depends(<< <<Alt("b")>> >>)}

ProvidesOf(p) ==
    CASE p = "a" -> {NoProvides}
      [] p = "b" -> {NoProvides, Provides(<<"v">>), Provides(<<"b", "v">>),
                     Provides(<<"d">>)}
      [] p = "d" -> {NoProvides, Provides(<<"v">>)}

\* The rows of package p the query may return: b is in every architecture,
\* a and d may be missing from it.
RowsOf(p) ==
    (IF p = "b" THEN {} ELSE {Absent})
        \cup {Row(d, pr) : d \in DependsOf(p), pr \in ProvidesOf(p)}

\* What the binary query of lines 1051-1064 may return for one architecture:
\* at most one row per package.
QueryRows ==
    {[p \in Pkgs |-> CASE p = "a" -> ra [] p = "b" -> rb [] p = "d" -> rd] :
        ra \in RowsOf("a"), rb \in RowsOf("b"), rd \in RowsOf("d")}

\* rdep_architectures, lines 1038-1041.
RdepArchitectures(arch_all) ==
    IF arch_all THEN AllArches \cup {"all"} ELSE AllArches

\* Sum of f over the finite set S.
RECURSIVE SumOver(_, _)
SumOver(S, f) ==
    IF S = {} THEN 0
    ELSE LET x == CHOOSE y \in S : TRUE
         IN f[x] + SumOver(S \ {x}, f)

\* Lines 1076-1084: the names that get a counter on this architecture.
CountedNames(rs) ==
    {n \in Names : \E p \in Pkgs :
        /\ rs[p].present
        /\ rs[p].provides.given
        /\ \E i \in 1..Len(rs[p].provides.names) :
              rs[p].provides.names[i] = n /\ n # p}

\* Lines 1081-1084: the counter of virtual name n after the scan of the rows.
ProvidesCounter(rs, rem, n) ==
    SumOver({p \in Pkgs : rs[p].present /\ rs[p].provides.given /\ p \notin rem},
            [p \in Pkgs |->
                Cardinality({i \in 1..Len(rs[p].provides.names) :
                                rs[p].provides.names[i] = n /\ n # p})])

VirtualPackages(rs, rem) ==
    [n \in CountedNames(rs) |-> ProvidesCounter(rs, rem, n)]

\* Variant of UpdatedRemovalSet: every counted name is added.
UpdatedRemovalSetAll(rset, vp) == rset \cup DOMAIN vp

\* Line 1088.
UpdatedRemovalSet(rset, vp) ==
    rset \cup {n \in DOMAIN vp : vp[n] = 0}

\* Variant of ParsedDep: text that does not parse counts as one clause that
\* no package satisfies.
ParsedDepOrBroken(d) ==
    IF d.given /\ ~d.ok THEN << <<>> >>
    ELSE IF d.given THEN d.clauses ELSE <<>>

\* apt_pkg.parse_depends with the except clause of lines 1094-1098 (and
\* 1166-1173): the parsed clauses, or [] when the text does not parse or is
\* absent.
ParsedDep(d) == IF d.given /\ d.ok THEN d.clauses ELSE <<>>

\* Lines 1103-1107: unsat == len(dep), membership tested against the
\* `removals` parameter.
Unsat(dep, rem) == Cardinality({i \in 1..Len(dep) : dep[i][1] \in rem})

\* Variant of ClauseBroken: one removed alternative breaks the clause.
ClauseBrokenAny(dep, rem) == Unsat(dep, rem) >= 1

ClauseBroken(dep, rem) == Unsat(dep, rem) = Len(dep)

\* Variant of DepProblem: the flag is overwritten by the pass instead of set.
DepProblemOverwritten(flag, found) == found # {}

\* Lines 1113 and 1190: dep_problem = True whenever a clause was found broken.
DepProblem(flag, found) == flag \/ found # {}

\* Lines 1108-1111 and 1186-1188: the key of the breakage map.
BrokenKey(source, component) ==
    IF component # "main" THEN <<source, component>> ELSE <<source>>

\* Variant of Surviving: the packages and sources to be removed are examined
\* as well.
SurvivingOrNot(name, rem) == TRUE

\* Lines 1092-1093 and 1164-1165: a package or source in removals is passed
\* over.
Surviving(name, rem) == name \notin rem

\* Lines 1091-1113 for one architecture: the (package, clause index) pairs
\* on which line 1107 holds.
BrokenClauses(rs, rem) ==
    UNION {{<<p, i>> : i \in {j \in 1..Len(ParsedDep(rs[p].depends)) :
                                ClauseBroken(ParsedDep(rs[p].depends)[j], rem)}}
           : p \in {q \in Pkgs : /\ rs[q].present
                                  /\ rs[q].depends.given
                                  /\ Surviving(q, rem)}}

\* Lines 1108-1112: the entries added to the binary breakage map.
BrokenBinaries(rs, rem, arch) ==
    {<<BrokenKey(SourceOf(pc[1]), ComponentOf(pc[1])), pc[1], arch>> :
        pc \in BrokenClauses(rs, rem)}

\* The sources and what the source query of lines 1152-1162 may find: the
\* Build-Depends and the Build-Depends-Indep metadata of each source.
Sources == {"a", "b"}

BuildDependsOf(s) ==
    CASE s = "a" -> {NoDepends, Unparseable,
                     Depends(<< <<Alt("b")>> >>),
                     Depends(<< <<Alt("b"), Alt("d")>> >>)}
      [] s = "b" -> {NoDepends, Depends(<< <<Alt("d")>> >>)}

BuildDependsIndepOf(s) ==
    CASE s = "a" -> {NoDepends, Depends(<< <<Alt("b")>> >>),
                     Depends(<< <<Alt("v")>> >>)}
      [] s = "b" -> {NoDepends}

\* No source has build-dependency metadata.
NoMetadata == [s \in Sources |-> [bd |-> NoDepends, bdi |-> NoDepends]]

SourceMetadata ==
    {[s \in Sources |-> IF s = "a" THEN [bd |-> bda, bdi |-> bdia]
                                    ELSE [bd |-> bdb, bdi |-> bdib]] :
        bda \in BuildDependsOf("a"), bdia \in BuildDependsIndepOf("a"),
        bdb \in BuildDependsOf("b"), bdib \in BuildDependsIndepOf("b")}

\* Lines 1143-1160: string_agg over the metadata keys selected; a source
\* with none of them yields no row.
BuildDep(md, arch_all) ==
    LET parts == IF arch_all THEN <<md.bd, md.bdi>> ELSE <<md.bd>>
        given == {i \in 1..Len(parts) : parts[i].given}
    IN IF given = {} THEN NoDepends
       ELSE IF \E i \in given : ~parts[i].ok THEN Unparseable
       ELSE IF arch_all /\ md.bd.given /\ md.bdi.given
            THEN Depends(md.bd.clauses \o md.bdi.clauses)
       ELSE IF md.bd.given THEN md.bd
       ELSE md.bdi

\* Variant of SourceQuery: both metadata keys are always selected.
SourceQueryBothKeys(meta, arch_all) ==
    [s \in {t \in Sources : BuildDep(meta[t], TRUE).given} |->
        BuildDep(meta[s], TRUE)]

SourceQuery(meta, arch_all) ==
    [s \in {t \in Sources : BuildDep(meta[t], arch_all).given} |->
        BuildDep(meta[s], arch_all)]

\* Lines 1163-1190: the (key, message) pairs added to the build-dependency
\* breakage map; pp_deps(dep) is represented by the clause it prints.
BrokenBuildDeps(srows, rem) ==
    UNION {{<<BrokenKey(s, ComponentOf(s)), ParsedDep(srows[s])[j]>> :
                j \in {i \in 1..Len(ParsedDep(srows[s])) :
                          ClauseBroken(ParsedDep(srows[s])[i], rem)}}
           : s \in {t \in DOMAIN srows : Surviving(t, rem)}}

NoOutput == [headers |-> {}, depends |-> {}, build_depends |-> {}, blank |-> 0]

RdepInit ==
    /\ removals \in SUBSET Pkgs
    /\ include_arch_all \in BOOLEAN
    /\ quiet \in BOOLEAN
    /\ cruft \in BOOLEAN
    /\ rdep_todo = RdepArchitectures(include_arch_all)
    /\ architecture = ""
    /\ processed = {}
    /\ rows = [p \in Pkgs |-> Absent]
    /\ virtual_packages = [n \in {} |-> 0]
    /\ removal_set = removals
    /\ all_broken = {}
    /\ all_broken_bd = {}
    /\ dep_problem = FALSE
    /\ broken_log = {}
    /\ src_meta = NoMetadata
    /\ src_rows = [s \in {} |-> NoDepends]
    /\ output = NoOutput
    /\ rpc = "loop"
    /\ ParseIdle
    /\ LaterIdle

\* One iteration of the loop of line 1042 for an architecture the database
\* knows: the query, the provides counter, the closure and the Depends check.
ProcessArchitecture ==
    /\ rpc = "loop"
    /\ \E arch \in rdep_todo, rs \in QueryRows :
        LET vp == VirtualPackages(rs, removals)
        IN /\ architecture' = arch
           /\ rdep_todo' = rdep_todo \ {arch}
           /\ rows' = rs
           /\ virtual_packages' = vp
           /\ removal_set' = UpdatedRemovalSet(removal_set, vp)
           /\ all_broken' = all_broken \cup BrokenBinaries(rs, removals, arch)
           /\ broken_log' = broken_log \cup
                  {<<arch, pc[1], pc[2]>> : pc \in BrokenClauses(rs, removals)}
           /\ processed' = processed \cup {arch}
           /\ dep_problem' = DepProblem(dep_problem, BrokenClauses(rs, removals))
    /\ UNCHANGED <<removals, include_arch_all, quiet, cruft, all_broken_bd,
                   src_meta, src_rows, output, rpc>>
    /\ UNCHANGED <<parseVars, laterVars>>

\* Lines 1046-1049: get_architecture returns None for an architecture the
\* database does not know, and the iteration is skipped.
SkipArchitecture ==
    /\ rpc = "loop"
    /\ \E arch \in rdep_todo :
        /\ architecture' = arch
        /\ rdep_todo' = rdep_todo \ {arch}
        /\ rows' = [p \in Pkgs |-> Absent]
        /\ virtual_packages' = [n \in {} |-> 0]
    /\ UNCHANGED <<removals, include_arch_all, quiet, cruft, processed,
                   removal_set, all_broken, all_broken_bd, dep_problem,
                   broken_log, src_meta, src_rows, output, rpc>>
    /\ UNCHANGED <<parseVars, laterVars>>

\* Lines 1123-1126: a binary broken on every architecture, or on "all", is
\* printed without its architecture list.
Collapsed(key, binary) ==
    LET arches == {a \in AllArches \cup {"all"} : <<key, binary, a>> \in all_broken}
    IN arches = AllArches \/ "all" \in arches

\* Lines 1115-1137, after the last architecture.  The order of the printed
\* lines is not modelled.  deps, sources and virtual_packages are never read
\* again and are dropped here.
RenderDepends ==
    /\ rpc = "loop"
    /\ rdep_todo = {}
    /\ output' =
          IF all_broken # {} /\ ~quiet
          THEN [output EXCEPT
                  !.headers = @ \cup {IF cruft THEN "  - broken Depends:"
                                               ELSE "# Broken Depends:"},
                  !.depends = {<<t[1], t[2], Collapsed(t[1], t[2])>> : t \in all_broken},
                  !.blank = IF cruft THEN @ ELSE @ + 1]
          ELSE output
    /\ rows' = [p \in Pkgs |-> Absent]
    /\ virtual_packages' = [n \in {} |-> 0]
    /\ rpc' = "sources"
    /\ UNCHANGED <<removals, include_arch_all, quiet, cruft, rdep_todo,
                   architecture, processed, removal_set, all_broken, all_broken_bd,
                   dep_problem, broken_log, src_meta, src_rows>>
    /\ UNCHANGED <<parseVars, laterVars>>

\* Lines 1139-1190: the source-level pass.
SourcePass ==
    /\ rpc = "sources"
    /\ \E meta \in SourceMetadata :
        LET srows == SourceQuery(meta, include_arch_all)
        IN /\ src_meta' = meta
           /\ src_rows' = srows
           /\ all_broken_bd' = BrokenBuildDeps(srows, removals)
           /\ dep_problem' = DepProblem(dep_problem, BrokenBuildDeps(srows, removals))
    /\ rpc' = "render_bd"
    /\ UNCHANGED <<removals, include_arch_all, quiet, cruft, rdep_todo,
                   architecture, processed, rows, virtual_packages, removal_set,
                   all_broken, broken_log, output>>
    /\ UNCHANGED <<parseVars, laterVars>>

\* Lines 1192-1211: the second part of the report and the return.
RenderBuildDepends ==
    /\ rpc = "render_bd"
    /\ output' =
          IF all_broken_bd # {} /\ ~quiet
          THEN [output EXCEPT
                  !.headers = @ \cup {IF cruft THEN "  - broken Build-Depends:"
                                               ELSE "# Broken Build-Depends:"},
                  !.build_depends = all_broken_bd,
                  !.blank = IF cruft THEN @ ELSE @ + 1]
          ELSE output
    /\ rpc' = "done"
    /\ UNCHANGED <<removals, include_arch_all, quiet, cruft, rdep_todo,
                   architecture, processed, rows, virtual_packages, removal_set,
                   all_broken, all_broken_bd, dep_problem, broken_log, src_meta,
                   src_rows>>
    /\ UNCHANGED <<parseVars, laterVars>>

RdepNext ==
    \/ ProcessArchitecture
    \/ SkipArchitecture
    \/ RenderDepends
    \/ SourcePass
    \/ RenderBuildDepends

\* check_reverse_depends is not running.
RdepIdle ==
    /\ removals = {}
    /\ include_arch_all = FALSE
    /\ quiet = FALSE
    /\ cruft = FALSE
    /\ rdep_todo = {}
    /\ architecture = ""
    /\ processed = {}
    /\ rows = [p \in Pkgs |-> Absent]
    /\ virtual_packages = [n \in {} |-> 0]
    /\ removal_set = {}
    /\ all_broken = {}
    /\ all_broken_bd = {}
    /\ dep_problem = FALSE
    /\ broken_log = {}
    /\ src_meta = NoMetadata
    /\ src_rows = [s \in {} |-> NoDepends]
    /\ output = NoOutput
    /\ rpc = "idle"

(***************************************************************************)
(*                     parse_deb822 and parse_changes                      *)
(***************************************************************************)

\* ---- characters and strings ----

UpperCase == <<"A", "B", "C", "D", "E", "F", "G", "H", "I", "J", "K", "L", "M", "N", "O", "P",
        "Q", "R", "S", "T", "U", "V", "W", "X", "Y", "Z">>
LowerCase == <<"a", "b", "c", "d", "e", "f", "g", "h", "i", "j", "k", "l", "m", "n", "o", "p",
        "q", "r", "s", "t", "u", "v", "w", "x", "y", "z">>

\* str.lower() on one character and on a string.
LowerChar(c) ==
    IF \E i \in 1..Len(UpperCase) : UpperCase[i] = c
    THEN LowerCase[CHOOSE i \in 1..Len(UpperCase) : UpperCase[i] = c]
    ELSE c

Lower(s) == [i \in 1..Len(s) |-> LowerChar(s[i])]

\* The characters the regular expression class \s matches.
IsSpace(c) == c \in {" ", "\t", "\n", "\r", "\f"}

\* Index of the last character of the first line of s, its line break
\* included: str.splitlines breaks after "\n", "\r\n" and a lone "\r".
LineEnd(s) ==
    LET breaks == {i \in 1..Len(s) : s[i] \in {"\n", "\r"}}
    IN IF breaks = {} THEN Len(s)
       ELSE LET i == CHOOSE b \in breaks : \A c \in breaks : b <= c
            IN IF s[i] = "\r" /\ i < Len(s) /\ s[i + 1] = "\n" THEN i + 1 ELSE i

\* contents.splitlines(True), line 108.
RECURSIVE SplitLines(_)
SplitLines(s) ==
    IF s = <<>> THEN <<>>
    ELSE <<SubSeq(s, 1, LineEnd(s))>> \o SplitLines(SubSeq(s, LineEnd(s) + 1, Len(s)))

\* line[:-1], line 119.
DropLast(line) == SubSeq(line, 1, Len(line) - 1)

\* Lines 115-119: indexed_lines, here a sequence indexed from 1.
IndexedLines(s) == [i \in 1..Len(SplitLines(s)) |-> DropLast(SplitLines(s)[i])]

\* str.strip() of the blanks at both ends.
RECURSIVE Trim(_)
Trim(s) ==
    IF s = <<>> THEN s
    ELSE IF IsSpace(s[1]) THEN Trim(Tail(s))
    ELSE IF IsSpace(s[Len(s)]) THEN Trim(DropLast(s))
    ELSE s

\* Length of the longest prefix of s made of non-blank characters.
NonBlankPrefix(s) ==
    IF \A i \in 1..Len(s) : ~IsSpace(s[i]) THEN Len(s)
    ELSE (CHOOSE i \in 1..Len(s) : IsSpace(s[i]) /\ \A j \in 1..(i - 1) : ~IsSpace(s[j])) - 1

\* First position after `from` holding a non-blank character, Len(s)+1 if none.
SkipBlanks(s, from) ==
    IF \A i \in (from + 1)..Len(s) : IsSpace(s[i]) THEN Len(s) + 1
    ELSE CHOOSE i \in (from + 1)..Len(s) :
            ~IsSpace(s[i]) /\ \A j \in (from + 1)..(i - 1) : IsSpace(s[j])

\* re_single_line_field, "Key: value": the shortest run of non-blank
\* characters that is followed, after optional blanks, by a colon; the value
\* is what follows the colon and the blanks after it.  The position of the
\* colon, 0 when the line is no field.
FieldColon(line) ==
    LET p == NonBlankPrefix(line)
        inner == {i \in 1..p : line[i] = ":"}
        after == SkipBlanks(line, p)
    IN IF inner # {} THEN CHOOSE i \in inner : \A j \in inner : i <= j
       ELSE IF after <= Len(line) /\ line[after] = ":" THEN after
       ELSE 0

IsField(line) == FieldColon(line) # 0

FieldKey(line) ==
    LET c == FieldColon(line)
    IN SubSeq(line, 1, IF c - 1 < NonBlankPrefix(line) THEN c - 1 ELSE NonBlankPrefix(line))

FieldValue(line) == SubSeq(line, SkipBlanks(line, FieldColon(line)), Len(line))

\* re_multi_line_field: a line beginning with whitespace; its content, trimmed.
IsContinuation(line) == line # <<>> /\ IsSpace(line[1])

ContinuationContent(line) == Trim(line)

\* The literal " ." line of line 136.
DotLine == <<" ", ".">>

\* re_srchasver, "name (version)": the position of the opening bracket, 0
\* when the value has not that form.
SrcVerBracket(s) ==
    LET p == NonBlankPrefix(s)
        b == SkipBlanks(s, p)
    IN IF /\ p >= 1
          /\ b > p + 1
          /\ b <= Len(s) - 2
          /\ s[b] = "("
          /\ s[Len(s)] = ")"
          /\ \A i \in (b + 1)..(Len(s) - 1) : ~IsSpace(s[i])
       THEN b
       ELSE 0

SrcVerName(s) == SubSeq(s, 1, NonBlankPrefix(s))
SrcVerVersion(s) == SubSeq(s, SrcVerBracket(s) + 1, Len(s) - 1)

\* ---- the parser's data ----

SOURCE == <<"s", "o", "u", "r", "c", "e">>
SOURCE_VERSION == <<"s", "o", "u", "r", "c", "e", "-", "v", "e", "r", "s", "i", "o", "n">>
FILECONTENTS == <<"f", "i", "l", "e", "c", "o", "n", "t", "e", "n", "t", "s">>

\* must_keywords, lines 196-197.
must_keywords ==
    << <<"F", "o", "r", "m", "a", "t">>, <<"D", "a", "t", "e">>, <<"S", "o", "u", "r", "c",
            "e">>, <<"A", "r", "c", "h", "i", "t", "e", "c", "t", "u", "r", "e">>,
       <<"V", "e", "r", "s", "i", "o", "n">>, <<"D", "i", "s", "t", "r", "i", "b", "u", "t", "i",
               "o", "n">>, <<"M", "a", "i", "n", "t", "a", "i", "n", "e", "r">>, <<"C", "h", "a",
                       "n", "g", "e", "s">>,
       <<"F", "i", "l", "e", "s">> >>

\* d[k] = v on a dict.
Put(d, k, v) == [x \in DOMAIN d \cup {k} |-> IF x = k THEN v ELSE d[x]]



Raise(kind, why, text, idx, missing) ==
    [kind |-> kind, why |-> why, text |-> text, index |-> idx, missing |-> missing]

Bound(k) == [bound |-> TRUE, name |-> k]

\* Lines 96-99: require_signature is derived from keyrings alone.
RequireSignature(kr) == kr # "None"

\* SignedFile (daklib/gpg.py): the verifier fails when a signature is required
\* and the input carries no valid one; otherwise it yields the payload.
VerifierRejects(kr, sig) == RequireSignature(kr) /\ sig # "valid"

\* armored_contents.decode(), line 149: the input as it was handed in.
Armored(payload, sig) ==
    IF sig = "valid"
    THEN <<"-----BEGIN PGP SIGNED MESSAGE-----\n">> \o payload
            \o <<"-----BEGIN PGP SIGNATURE-----\n">>
    ELSE payload

\* Variant of StrictEmptyLineIsError: the final empty line is an error too.
StrictEmptyLineAlwaysError(idx, n) == TRUE

\* Line 128: in strict mode an empty line is an error unless it is the last.
StrictEmptyLineIsError(idx, n) == idx # n

\* Variant of Separator: a newline also after an empty first-line value.
SeparatorAlways(fst, value) == IF fst = 1 THEN <<"\n">> ELSE <<>>

\* Lines 142-143: the newline put before the first continuation line.
Separator(fst, value) == IF fst = 1 /\ value # <<>> THEN <<"\n">> ELSE <<>>

\* Variant of AppendError: only the first bad line is kept.
AppendErrorKeepsFirst(err, line) == IF err = <<>> THEN line ELSE err

\* Variant of AppendError: the bad line is put in front.
AppendErrorInFront(err, line) == line \o err

\* Line 147: error += line.
AppendError(err, line) == err \o line

\* Variant of SplitSource: the version is left in the source field.
SplitSourceKeepsVersion(ch) ==
    IF SOURCE \in DOMAIN ch /\ SrcVerBracket(ch[SOURCE]) # 0
    THEN Put(ch, SOURCE_VERSION, SrcVerVersion(ch[SOURCE]))
    ELSE ch

\* Lines 151-156: the bracketed version is moved out of the source field.
SplitSource(ch) ==
    IF SOURCE \in DOMAIN ch /\ SrcVerBracket(ch[SOURCE]) # 0
    THEN Put(Put(ch, SOURCE, SrcVerName(ch[SOURCE])),
             SOURCE_VERSION, SrcVerVersion(ch[SOURCE]))
    ELSE ch

\* Lines 199-205: the loop over must_keywords from keyword i on, with the
\* missingfields collected so far; the list the error is raised with, or the
\* empty list when the loop ends without raising.
RECURSIVE MissingFields(_, _, _)
MissingFields(ch, i, missingfields) ==
    IF i > Len(must_keywords) THEN <<>>
    ELSE IF Lower(must_keywords[i]) \notin DOMAIN ch
         THEN LET appended == Append(missingfields, must_keywords[i])
              IN IF Len(appended) # 0 THEN appended
                 ELSE MissingFields(ch, i + 1, appended)
         ELSE MissingFields(ch, i + 1, missingfields)

\* ---- inputs ----

\* The most lines a payload handed to parse_deb822 has.
MaxLines == 3

\* The lines such a payload is made of: a field with a bracketed version, a
\* field with an empty value, the literal " .", a continuation, an empty
\* line, and two lines of no accepted shape.
LineTexts ==
    { <<"S", "o", "u", "r", "c", "e", ":", " ", "n", " ", "(", "1", ")">>, <<"k", ":">>, <<" ",
            ".">>, <<" ", "c">>, <<>>, <<"x">>, <<"y">> }

\* The fields of a complete .changes file, in order.
ChangesLines ==
    << <<"F", "o", "r", "m", "a", "t", ":", " ", "1">>, <<"D", "a", "t", "e", ":", " ",
            "d">>, <<"S", "o", "u", "r", "c", "e", ":", " ", "n", " ", "(", "1", ")">>, <<"A",
                    "r", "c", "h", "i", "t", "e", "c", "t", "u", "r", "e", ":", " ", "a">>,
       <<"V", "e", "r", "s", "i", "o", "n", ":", " ", "1">>, <<"D", "i", "s", "t", "r", "i", "b",
               "u", "t", "i", "o", "n", ":", " ", "u">>, <<"M", "a", "i", "n", "t", "a", "i", "n",
                       "e", "r", ":", " ", "m">>,
       <<"C", "h", "a", "n", "g", "e", "s", ":", " ", "c">>, <<"F", "i", "l", "e", "s", ":", " ",
               "f">> >>

\* The line break of a style, and the text the lines make with it; in the
\* style "LF-noeol" the last line has no line break.
LineBreak(style) == IF style = "CRLF" THEN <<"\r", "\n">> ELSE <<"\n">>

RECURSIVE Join(_, _)
Join(texts, style) ==
    IF texts = <<>> THEN <<>>
    ELSE IF Len(texts) = 1 /\ style = "LF-noeol" THEN texts[1]
    ELSE texts[1] \o LineBreak(style) \o Join(Tail(texts), style)

\* The lines of ChangesLines whose number is in S, in order.
RECURSIVE Selected(_, _)
Selected(S, i) ==
    IF i > Len(ChangesLines) THEN <<>>
    ELSE (IF i \in S THEN <<ChangesLines[i]>> ELSE <<>>) \o Selected(S, i + 1)

ParseStart ==
    /\ indexed_lines = <<>>
    /\ index = 0
    /\ first = -1
    /\ field = Unbound
    /\ changes = EmptyDict
    /\ error = <<>>
    /\ raised = NotRaised
    /\ ppc = "start"

\* A direct call of parse_deb822 on a payload of up to MaxLines lines; the
\* signed inputs and the calls with keyrings have "\n" line breaks.
ParseDeb822Call ==
    /\ entry = "parse_deb822"
    /\ dsc_file = FALSE
    /\ \E n \in 0..MaxLines : \E texts \in [1..n -> LineTexts] :
       \E style \in {"LF", "CRLF", "LF-noeol"} :
          /\ contents = Join(texts, style)
          /\ \E sk \in {<<"unsigned", "None">>} \cup
                        (IF style = "LF"
                         THEN {<<"valid", "keyrings">>, <<"unsigned", "keyrings">>}
                         ELSE {}) :
                signed = sk[1] /\ keyrings = sk[2]
    /\ signing_rules \in {-1, 0, 1}
    /\ ParseStart

\* A call of parse_changes on a file holding some of the fields of a
\* complete .changes file.
ParseChangesCall ==
    /\ entry = "parse_changes"
    /\ dsc_file \in BOOLEAN
    /\ \E S \in SUBSET (1..Len(ChangesLines)) : contents = Join(Selected(S, 1), "LF")
    /\ \E sk \in {<<"unsigned", "None">>, <<"valid", "keyrings">>,
                   <<"unsigned", "keyrings">>} :
          signed = sk[1] /\ keyrings = sk[2]
    /\ signing_rules \in {-1, 0}
    /\ ParseStart

ParseInit == (ParseDeb822Call \/ ParseChangesCall) /\ RdepIdle /\ LaterIdle

\* ---- actions ----

inputVars == <<entry, contents, signed, keyrings, signing_rules, dsc_file>>

\* Lines 96-123 (for parse_changes after lines 190-192): verification, the
\* split into lines, the empty-file check and the reindexing.
Verify ==
    /\ ppc = "start"
    /\ IF VerifierRejects(keyrings, signed)
       THEN /\ raised' = Raise("GpgException", "no valid signature", <<>>, 0, <<>>)
            /\ ppc' = "raised"
            /\ UNCHANGED indexed_lines
       ELSE IF Len(SplitLines(contents)) = 0
       THEN /\ raised' = Raise("ParseChangesError", "empty", <<>>, 0, <<>>)
            /\ ppc' = "raised"
            /\ UNCHANGED indexed_lines
       ELSE /\ indexed_lines' = IndexedLines(contents)
            /\ ppc' = "scan"
            /\ UNCHANGED raised
    /\ UNCHANGED <<inputVars, index, first, field, changes, error>>
    /\ UNCHANGED <<rdepVars, laterVars>>

\* Lines 124-147: one iteration of the scan; the loop ends when the last
\* line has been taken.
ScanLine ==
    /\ ppc = "scan"
    /\ index < Len(indexed_lines)
    /\ index' = index + 1
    /\ LET line == indexed_lines[index + 1]
           more == IF index + 1 < Len(indexed_lines) THEN "scan" ELSE "finish"
       IN IF line = <<>> /\ signing_rules = 1
          THEN IF StrictEmptyLineIsError(index + 1, Len(indexed_lines))
               THEN /\ raised' = Raise("InvalidDscError", "empty line", <<>>, index + 1, <<>>)
                    /\ ppc' = "raised"
                    /\ UNCHANGED <<first, field, changes, error>>
               ELSE /\ ppc' = "finish"
                    /\ UNCHANGED <<first, field, changes, error, raised>>
          ELSE IF IsField(line)
          THEN /\ field' = Bound(Lower(FieldKey(line)))
               /\ changes' = Put(changes, Lower(FieldKey(line)), FieldValue(line))
               /\ first' = 1
               /\ ppc' = more
               /\ UNCHANGED <<error, raised>>
          ELSE IF line = DotLine
          THEN IF ~field.bound
               THEN /\ raised' = Raise("UnboundLocalError", "field", <<>>, 0, <<>>)
                    /\ ppc' = "raised"
                    /\ UNCHANGED <<first, field, changes, error>>
               ELSE /\ changes' = Put(changes, field.name, changes[field.name] \o <<"\n">>)
                    /\ ppc' = more
                    /\ UNCHANGED <<first, field, error, raised>>
          ELSE IF IsContinuation(line)
          THEN IF first = -1
               THEN /\ raised' = Raise("ParseChangesError", "continuing from nothing",
                                       line, 0, <<>>)
                    /\ ppc' = "raised"
                    /\ UNCHANGED <<first, field, changes, error>>
               ELSE /\ changes' = Put(changes, field.name,
                                      changes[field.name]
                                        \o Separator(first, changes[field.name])
                                        \o ContinuationContent(line) \o <<"\n">>)
                    /\ first' = 0
                    /\ ppc' = more
                    /\ UNCHANGED <<field, error, raised>>
          ELSE /\ error' = AppendError(error, line)
               /\ ppc' = more
               /\ UNCHANGED <<first, field, changes, raised>>
    /\ UNCHANGED <<inputVars, indexed_lines>>
    /\ UNCHANGED <<rdepVars, laterVars>>

\* Lines 149-161: filecontents, the split of the source field, the
\* aggregated error or the return.
Finish ==
    /\ ppc = "finish"
    /\ changes' = SplitSource(Put(changes, FILECONTENTS, Armored(contents, signed)))
    /\ IF error # <<>>
       THEN /\ raised' = Raise("ParseChangesError", "unparseable", error, 0, <<>>)
            /\ ppc' = "raised"
       ELSE /\ ppc' = "parsed"
            /\ UNCHANGED raised
    /\ UNCHANGED <<inputVars, indexed_lines, index, first, field, error>>
    /\ UNCHANGED <<rdepVars, laterVars>>

\* Lines 194-207 of parse_changes, once parse_deb822 has returned.
MandatoryFields ==
    /\ ppc = "parsed"
    /\ entry = "parse_changes"
    /\ IF ~dsc_file /\ MissingFields(changes, 1, <<>>) # <<>>
       THEN /\ raised' = Raise("ParseChangesError", "missing mandatory fields", <<>>, 0,
                               MissingFields(changes, 1, <<>>))
            /\ ppc' = "raised"
       ELSE /\ ppc' = "returned"
            /\ UNCHANGED raised
    /\ UNCHANGED <<inputVars, indexed_lines, index, first, field, changes, error>>
    /\ UNCHANGED <<rdepVars, laterVars>>

ParseNext ==
    \/ Verify
    \/ ScanLine
    \/ Finish
    \/ MandatoryFields


(***************************************************************************)
(*                            build_file_list                              *)
(***************************************************************************)

\* str.split('\n'), line 299.
RECURSIVE SplitNewline(_)
SplitNewline(s) ==
    IF \A i \in 1..Len(s) : s[i] # "\n" THEN <<s>>
    ELSE LET i == CHOOSE j \in 1..Len(s) : s[j] = "\n" /\ \A m \in 1..(j - 1) : s[m] # "\n"
         IN <<SubSeq(s, 1, i - 1)>> \o SplitNewline(SubSeq(s, i + 1, Len(s)))

\* str.split() without argument, line 302: the runs of non-blank characters.
RECURSIVE Tokens(_)
Tokens(s) ==
    IF s = <<>> THEN <<>>
    ELSE IF IsSpace(s[1]) THEN Tokens(Tail(s))
    ELSE <<SubSeq(s, 1, NonBlankPrefix(s))>>
            \o Tokens(SubSeq(s, NonBlankPrefix(s) + 1, Len(s)))

MAIN == <<"m", "a", "i", "n">>
DASH == <<"-">>

\* Variant of extract_component_from_section: the component is cut off the
\* section.
extract_component_strips_section(section) ==
    IF \E i \in 1..Len(section) : section[i] = "/"
    THEN LET i == CHOOSE j \in 1..Len(section) :
                    section[j] = "/" /\ \A m \in 1..(j - 1) : section[m] # "/"
         IN <<SubSeq(section, i + 1, Len(section)), SubSeq(section, 1, i - 1)>>
    ELSE <<section, MAIN>>

\* extract_component_from_section, lines 81-90: (section, component).
extract_component_from_section(section) ==
    IF \E i \in 1..Len(section) : section[i] = "/"
    THEN LET i == CHOOSE j \in 1..Len(section) :
                    section[j] = "/" /\ \A m \in 1..(j - 1) : section[m] # "/"
         IN <<section, SubSeq(section, 1, i - 1)>>
    ELSE <<section, MAIN>>

\* Line 296.
IncludesSection(dsc, fld) == ~dsc /\ fld = "files"

\* Variant of UnpackFails: a line with too many tokens is accepted.
UnpackFailsWhenShort(s, includes) == Len(s) < (IF includes THEN 5 ELSE 3)

\* Lines 304-309: the tuple assignment raises ValueError.
UnpackFails(s, includes) == Len(s) # (IF includes THEN 5 ELSE 3)

\* Variant of Dash: an empty section or priority stays empty.
DashKept(v) == v

\* Lines 312-315: an empty section or priority becomes "-".
Dash(v) == IF v = <<>> THEN DASH ELSE v

\* Lines 303-321: the entry made of the tokens s of one line.
FileEntry(s, includes) ==
    LET section == IF includes THEN s[3] ELSE <<>>
        priority == IF includes THEN s[4] ELSE <<>>
        sc == extract_component_from_section(Dash(section))
    IN [size |-> s[2], section |-> sc[1], priority |-> Dash(priority),
        component |-> sc[2], hash |-> s[1]]

\* The filename among the tokens s of one line, lines 306 and 308.
FileName(s, includes) == IF includes THEN s[5] ELSE s[3]

\* Variant of SetEntry: an entry already stored for the filename is kept.
SetEntryKeepsFirst(fs, name, e) == IF name \in DOMAIN fs THEN fs ELSE Put(fs, name, e)

\* Lines 319-321: files[name] = dict(...).
SetEntry(fs, name, e) == Put(fs, name, e)

\* ---- inputs ----

\* The most lines the value of the field splits into.
MaxFileLines == 3

\* The lines of a file list: five tokens with a plain section, with a
\* section holding a component, and again for that filename with other
\* values; three tokens for two filenames; an empty line, a blank line and a
\* line of four tokens.
ListTexts ==
    { <<"h", " ", "1", " ", "x", " ", "p", " ", "e">>, <<"h", " ", "1", " ", "c", "/", "x", " ",
            "p", " ", "f">>, <<"g", " ", "2", " ", "c", "/", "x", "/", "y", " ", "q", " ",
                    "f">>, <<"h", " ", "1", " ", "f">>, <<"g", " ", "2", " ", "e">>,
      <<>>, <<" ">>, <<"h", " ", "1", " ", "x", " ", "f">> }

\* The text lines joined by newlines.
RECURSIVE JoinNewline(_)
JoinNewline(ls) ==
    IF Len(ls) = 1 THEN ls[1] ELSE ls[1] \o <<"\n">> \o JoinNewline(Tail(ls))

ListInit ==
    /\ \E hv \in {<<TRUE, TRUE>>, <<TRUE, FALSE>>, <<FALSE, TRUE>>} :
          has_field = hv[1] /\ format_valid = hv[2]
    /\ is_a_dsc \in BOOLEAN
    /\ list_field \in {"files", "checksums-sha1"}
    /\ \E n \in 1..MaxFileLines : \E ls \in [1..n -> ListTexts] : list_value = JoinNewline(ls)
    /\ list_lines = <<>>
    /\ list_pos = 0
    /\ files = [x \in {} |-> <<>>]
    /\ list_raised = NoListError
    /\ lpc = "start"
    /\ RdepIdle
    /\ ParseIdle
    /\ BesideListIdle

\* Lines 286-299: the checks made before the loop.
ListStart ==
    /\ lpc = "start"
    /\ IF ~has_field
       THEN /\ list_raised' = [kind |-> "NoFilesFieldError", text |-> <<>>]
            /\ lpc' = "raised"
            /\ UNCHANGED list_lines
       ELSE IF ~is_a_dsc /\ ~format_valid
       THEN /\ list_raised' = [kind |-> "format rejected", text |-> <<>>]
            /\ lpc' = "raised"
            /\ UNCHANGED list_lines
       ELSE /\ list_lines' = SplitNewline(list_value)
            /\ lpc' = "loop"
            /\ UNCHANGED list_raised
    /\ UNCHANGED <<has_field, format_valid, is_a_dsc, list_field, list_value, list_pos, files>>
    /\ UNCHANGED besideList

\* Lines 299-323: one iteration of the loop, and the return when it ends.
ListLine ==
    /\ lpc = "loop"
    /\ list_pos < Len(list_lines)
    /\ list_pos' = list_pos + 1
    /\ LET i == list_lines[list_pos + 1]
           s == Tokens(i)
           includes_section == IncludesSection(is_a_dsc, list_field)
       IN IF i = <<>>
          THEN /\ lpc' = "returned"
               /\ UNCHANGED <<files, list_raised>>
          ELSE IF UnpackFails(s, includes_section)
          THEN /\ list_raised' = [kind |-> "ParseChangesError", text |-> i]
               /\ lpc' = "raised"
               /\ UNCHANGED files
          ELSE /\ files' = SetEntry(files, FileName(s, includes_section),
                                    FileEntry(s, includes_section))
               /\ lpc' = IF list_pos + 1 = Len(list_lines) THEN "returned" ELSE "loop"
               /\ UNCHANGED list_raised
    /\ UNCHANGED <<has_field, format_valid, is_a_dsc, list_field, list_value, list_lines>>
    /\ UNCHANGED besideList

ListNext ==
    \/ ListStart
    \/ ListLine

(***************************************************************************)
(*                            check_dsc_files                              *)
(***************************************************************************)

\* Whether s begins with p: re.match anchors a pattern at the start only.
StartsWith(s, p) == Len(s) >= Len(p) /\ SubSeq(s, 1, Len(p)) = p

\* The alternatives of (gz|bz2|xz).
Compressions == { <<"g", "z">>, <<"b", "z", "2">>, <<"x", "z">> }

\* The tags of the counters.
Tags == {"orig_tar_sig", "orig_tar_gz", "orig_tar", "debian_diff", "native_tar_gz",
         "native_tar", "debian_tar", "more_orig_tar_sig", "more_orig_tar"}

\* s is "orig-", one or more characters, and a text beginning with rest.
MoreOrig(s, rest) ==
    /\ StartsWith(s, <<"o", "r", "i", "g", "-">>)
    /\ \E i \in 7..Len(s) : StartsWith(SubSeq(s, i, Len(s)), rest)

\* ftype_lookup, lines 229-239: whether the regex of rule r matches ext.
RuleMatches(r, ext) ==
    CASE r = 1 -> \E z \in Compressions : StartsWith(ext, <<"o", "r", "i", "g", ".", "t", "a",
            "r", ".">> \o z \o <<".", "a", "s", "c">>)
      [] r = 2 -> StartsWith(ext, <<"o", "r", "i", "g", ".", "t", "a", "r", ".", "g", "z">>)
      [] r = 3 -> StartsWith(ext, <<"d", "i", "f", "f", ".", "g", "z">>)
      [] r = 4 -> StartsWith(ext, <<"t", "a", "r", ".", "g", "z">>)
      [] r = 5 -> \E z \in Compressions : StartsWith(ext, <<"d", "e", "b", "i", "a", "n", ".",
              "t", "a", "r", ".">> \o z)
      [] r = 6 -> \E z \in Compressions : StartsWith(ext, <<"o", "r", "i", "g", ".", "t", "a",
              "r", ".">> \o z)
      [] r = 7 -> \E z \in Compressions : StartsWith(ext, <<"t", "a", "r", ".">> \o z)
      [] r = 8 -> \E z \in Compressions : MoreOrig(ext, <<".", "t", "a", "r", ".">> \o z \o <<".",
              "a", "s", "c">>)
      [] r = 9 -> \E z \in Compressions : MoreOrig(ext, <<".", "t", "a", "r", ".">> \o z)

\* ftype_lookup, lines 229-239: the keys of rule r.
RuleKeys(r) ==
    CASE r = 1 -> {"orig_tar_sig"}
      [] r = 2 -> {"orig_tar_gz", "orig_tar"}
      [] r = 3 -> {"debian_diff"}
      [] r = 4 -> {"native_tar_gz", "native_tar"}
      [] r = 5 -> {"debian_tar"}
      [] r = 6 -> {"orig_tar"}
      [] r = 7 -> {"native_tar"}
      [] r = 8 -> {"more_orig_tar_sig"}
      [] r = 9 -> {"more_orig_tar"}

Rules == 1..9

\* Variant of FirstRule: the last rule that matches is taken.
LastRule(ext) ==
    IF \E r \in Rules : RuleMatches(r, ext)
    THEN CHOOSE r \in Rules : RuleMatches(r, ext) /\ \A q \in Rules : RuleMatches(q, ext) => q <= r
    ELSE 0

\* Lines 250-255: the first rule, in table order, that matches; 0 if none.
FirstRule(ext) ==
    IF \E r \in Rules : RuleMatches(r, ext)
    THEN CHOOSE r \in Rules : RuleMatches(r, ext) /\ \A q \in Rules : RuleMatches(q, ext) => r <= q
    ELSE 0

\* Lines 253-254: every key of the rule is counted once.
Counted(h, r) == [t \in Tags |-> IF t \in RuleKeys(r) THEN h[t] + 1 ELSE h[t]]

\* The types of line 263.
SingleTypes == <<"orig_tar", "orig_tar_sig", "native_tar", "debian_tar", "debian_diff">>

\* Variant of ListsMultiple: one file of the type is already too many.
ListsAny(h, t) == h[t] > 0

\* Line 264.
ListsMultiple(h, t) == h[t] > 1

\* An entry of rejmsg: the kind of the message and the filename, type or
\* text it names.
Msg(kind, arg) == [kind |-> kind, arg |-> arg]

\* Variant of AfterUnrecognised: the loop is left.
AfterUnrecognisedStops(last) == "multiple"

\* Line 246: after a filename that is no source file the loop continues with
\* the next filename, if there is one.
AfterUnrecognised(last) == IF last THEN "multiple" ELSE "loop"

\* Lines 263-265: the messages of the multiplicity check, in order.
MultipleMsgs(h) ==
    LET hit == SelectSeq(SingleTypes, LAMBDA t : ListsMultiple(h, t))
    IN [i \in 1..Len(hit) |-> Msg("lists multiple", hit[i])]

\* A filename: what re_issource makes of it.  ext is group 3 of the match;
\* a filename the pattern does not match has issource FALSE.
SourceFile(name, ext) == [name |-> name, issource |-> TRUE, ext |-> ext]
OtherFile(name) == [name |-> name, issource |-> FALSE, ext |-> <<>>]

\* The filenames a .dsc may list.
FilePool ==
    { SourceFile("p_1.orig.tar.gz", <<"o", "r", "i", "g", ".", "t", "a", "r", ".", "g", "z">>),
      SourceFile("q_1.orig.tar.gz", <<"o", "r", "i", "g", ".", "t", "a", "r", ".", "g", "z">>),
      SourceFile("p_1.orig.tar.gz.asc", <<"o", "r", "i", "g", ".", "t", "a", "r", ".", "g", "z",
              ".", "a", "s", "c">>),
      SourceFile("p_1.diff.gz", <<"d", "i", "f", "f", ".", "g", "z">>),
      SourceFile("p_1.tar.gz", <<"t", "a", "r", ".", "g", "z">>),
      SourceFile("p_1.debian.tar.xz", <<"d", "e", "b", "i", "a", "n", ".", "t", "a", "r", ".",
              "x", "z">>),
      SourceFile("p_1.orig-c.tar.gz", <<"o", "r", "i", "g", "-", "c", ".", "t", "a", "r", ".",
              "g", "z">>),
      SourceFile("p_1.orig-c.tar.gz.asc", <<"o", "r", "i", "g", "-", "c", ".", "t", "a", "r", ".",
              "g", "z", ".", "a", "s", "c">>),
      SourceFile("p_1.dsc", <<"d", "s", "c">>),
      OtherFile("README") }

\* The declared formats: one a source-format strategy recognises and one
\* that none does.
Formats == {"1.0", "0.0"}

\* get_format_from_string raises UnknownFormatError, line 269.
UnknownFormat(fmt) == fmt # "1.0"

\* Variant of FormatMsgs: an unknown format is a violation.
FormatMsgsStrict(fmt, h) ==
    IF UnknownFormat(fmt) THEN <<Msg("format", "unknown format")>>
    ELSE (IF h["native_tar_gz"] > 0 \/ (h["orig_tar_gz"] > 0 /\ h["debian_diff"] > 0)
          THEN <<>> ELSE <<Msg("format", "no tarball")>>)
         \o (IF h["debian_tar"] > 0 \/ h["more_orig_tar"] > 0
             THEN <<Msg("format", "not allowed")>> ELSE <<>>)

\* Lines 268-276: the messages of the format's strategy for the counters,
\* none when the format is unknown.
FormatMsgs(fmt, h) ==
    IF UnknownFormat(fmt) THEN <<>>
    ELSE (IF h["native_tar_gz"] > 0 \/ (h["orig_tar_gz"] > 0 /\ h["debian_diff"] > 0)
          THEN <<>> ELSE <<Msg("format", "no tarball")>>)
         \o (IF h["debian_tar"] > 0 \/ h["more_orig_tar"] > 0
             THEN <<Msg("format", "not allowed")>> ELSE <<>>)

\* ---- inputs ----

\* The most filenames a .dsc lists.
MaxDscFiles == 3

\* The sequences of n different filenames.
FileLists(n) ==
    {fs \in [1..n -> FilePool] : \A i, j \in 1..n : i # j => fs[i] # fs[j]}

DscInit ==
    /\ \E n \in 0..MaxDscFiles : dsc_files \in FileLists(n)
    /\ dsc_format \in Formats
    /\ dsc_pos = 0
    /\ has = [t \in Tags |-> 0]
    /\ rejmsg = <<>>
    /\ classified = {}
    /\ dpc = "loop"
    /\ RdepIdle
    /\ ParseIdle
    /\ BesideDscIdle

\* Lines 241-260: one iteration of the loop over the filenames.
ClassifyFile ==
    /\ dpc = "loop"
    /\ dsc_pos < Len(dsc_files)
    /\ dsc_pos' = dsc_pos + 1
    /\ LET f == dsc_files[dsc_pos + 1]
           last == dsc_pos + 1 = Len(dsc_files)
       IN IF ~f.issource
          THEN /\ rejmsg' = Append(rejmsg, Msg("not recognised as source", f.name))
               /\ dpc' = AfterUnrecognised(last)
               /\ UNCHANGED <<has, classified>>
          ELSE /\ classified' = classified \cup {f.name}
               /\ IF FirstRule(f.ext) # 0
                  THEN /\ has' = Counted(has, FirstRule(f.ext))
                       /\ dpc' = IF last THEN "multiple" ELSE "loop"
                       /\ UNCHANGED rejmsg
                  ELSE /\ rejmsg' = Append(rejmsg, Msg("unexpected source file", f.name))
                       /\ dpc' = "multiple"
                       /\ UNCHANGED has
    /\ UNCHANGED <<dsc_files, dsc_format>>
    /\ UNCHANGED besideDsc

\* Lines 241 and 262-265: the loop over no filename at all, and the check
\* for multiple files.
CheckMultiple ==
    /\ \/ dpc = "multiple"
       \/ dpc = "loop" /\ dsc_files = <<>>
    /\ rejmsg' = rejmsg \o MultipleMsgs(has)
    /\ dpc' = "format"
    /\ UNCHANGED <<dsc_files, dsc_format, dsc_pos, has, classified>>
    /\ UNCHANGED besideDsc

\* Lines 267-278: the tests of the source format, and the return.
CheckFormat ==
    /\ dpc = "format"
    /\ rejmsg' = rejmsg \o FormatMsgs(dsc_format, has)
    /\ dpc' = "returned"
    /\ UNCHANGED <<dsc_files, dsc_format, dsc_pos, has, classified>>
    /\ UNCHANGED besideDsc

DscNext ==
    \/ ClassifyFile
    \/ CheckMultiple
    \/ CheckFormat

(***************************************************************************)
(*                         gpg_get_key_addresses                           *)
(***************************************************************************)

\* The fingerprints looked up.
Fingerprints == {"F", "G"}

\* What one run of gpg gives for a fingerprint, lines 750-757: the
\* addresses of the listing, or [] when gpg fails.  The keyring is outside
\* the program, so two runs need not give the same.
GpgListings == { <<>>, <<"a@x">>, <<"b@x">> }

\* key_uid_email_cache.get(fingerprint), line 746: None when there is no
\* entry.
CacheGet(cache, fp) ==
    IF fp \in DOMAIN cache THEN [known |-> TRUE, list |-> cache[fp]] ELSE NoList

\* key_uid_email_cache[fingerprint] = addresses, line 759.
CacheSet(cache, fp, list) ==
    [f \in DOMAIN cache \cup {fp} |-> IF f = fp THEN list ELSE cache[f]]

\* The most calls one thread makes.
MaxLookups == 2

CacheInit ==
    /\ key_uid_email_cache = [f \in {} |-> <<>>]
    /\ fingerprint = [t \in Threads |-> ""]
    /\ addresses = [t \in Threads |-> NoList]
    /\ result = [t \in Threads |-> NoList]
    /\ stored = [f \in {} |-> <<>>]
    /\ lookups = [t \in Threads |-> 0]
    /\ cpc = [t \in Threads |-> "idle"]
    /\ RdepIdle
    /\ ParseIdle
    /\ BesideCacheIdle

\* Lines 746-748: a thread calls the function; it returns the entry of the
\* cache if there is one.
Lookup ==
    \E t \in Threads : \E fp \in Fingerprints :
        /\ cpc[t] = "idle"
        /\ lookups[t] < MaxLookups
        /\ lookups' = [lookups EXCEPT ![t] = @ + 1]
        /\ fingerprint' = [fingerprint EXCEPT ![t] = fp]
        /\ addresses' = [addresses EXCEPT ![t] = CacheGet(key_uid_email_cache, fp)]
        /\ IF CacheGet(key_uid_email_cache, fp).known
           THEN /\ result' = [result EXCEPT ![t] = CacheGet(key_uid_email_cache, fp)]
                /\ UNCHANGED cpc
           ELSE /\ result' = [result EXCEPT ![t] = NoList]
                /\ cpc' = [cpc EXCEPT ![t] = "gpg"]
        /\ UNCHANGED <<key_uid_email_cache, stored>>
        /\ UNCHANGED besideCache

\* Lines 750-757: the thread runs gpg, without holding any lock.
RunGpg ==
    \E t \in Threads : \E listing \in GpgListings :
        /\ cpc[t] = "gpg"
        /\ addresses' = [addresses EXCEPT ![t] = [known |-> TRUE, list |-> listing]]
        /\ cpc' = [cpc EXCEPT ![t] = "store"]
        /\ UNCHANGED <<key_uid_email_cache, fingerprint, result, stored, lookups>>
        /\ UNCHANGED besideCache

\* Lines 759-760: the thread stores its list and returns it.
StoreAddresses ==
    \E t \in Threads :
        /\ cpc[t] = "store"
        /\ key_uid_email_cache' =
              CacheSet(key_uid_email_cache, fingerprint[t], addresses[t].list)
        /\ stored' = IF fingerprint[t] \in DOMAIN stored THEN stored
                     ELSE CacheSet(stored, fingerprint[t], addresses[t].list)
        /\ result' = [result EXCEPT ![t] = addresses[t]]
        /\ cpc' = [cpc EXCEPT ![t] = "idle"]
        /\ UNCHANGED <<fingerprint, addresses, lookups>>
        /\ UNCHANGED besideCache

CacheNext ==
    \/ Lookup
    \/ RunGpg
    \/ StoreAddresses

(***************************************************************************)
(*                       check_valid (daklib/queue.py)                     *)
(***************************************************************************)

\* The database: the priorities and sections that exist, and the component
\* names get_mapped_component finds a component for.
DbPriorities == {"optional"}
DbSections == {"debian-installer", "net"}
DbComponents == {"main"}

OverrideTypes == {"dsc", "deb", "udeb"}

Override(p, sec, comp, type) ==
    [priority |-> p, section |-> sec, component |-> comp, type |-> type]

\* The overrides given: every type, one not of the three included, with
\* priority, section and component all in the database or one of them not.
OverridePool ==
    {Override(psc[1], psc[2], psc[3], type) :
        psc \in {<<"optional", "debian-installer", "main">>,
                 <<"optional", "net", "main">>,
                 <<"extra?", "debian-installer", "main">>,
                 <<"extra?", "net", "main">>,
                 <<"optional", "games?", "main">>,
                 <<"optional", "debian-installer", "contrib?">>,
                 <<"optional", "net", "contrib?">>},
        type \in OverrideTypes \cup {"ddeb"}}

\* Lines 68-74: o['valid'] after the three lookups in the database.
InDatabase(o) ==
    /\ o.priority \in DbPriorities
    /\ o.section \in DbSections
    /\ o.component \in DbComponents

\* Lines 77-80: the two sanity checks on type and section.
SanityChecks(o) ==
    /\ ~(o.type = "udeb" /\ o.section # "debian-installer")
    /\ ~(o.section = "debian-installer" /\ o.type \notin {"dsc", "udeb"})

\* Variant of AllValid: the verdict of the last override is returned.
LastValid(all, v) == v

\* Line 81.
AllValid(all, v) == all /\ v

Flag(b) == IF b THEN "True" ELSE "False"

\* The most overrides given.
MaxOverrides == 2

ValidInit ==
    /\ \E n \in 0..MaxOverrides : overrides \in [1..n -> OverridePool]
    /\ valid = [i \in 1..Len(overrides) |-> "unset"]
    /\ all_valid = TRUE
    /\ override_pos = 0
    /\ vpc = "loop"
    /\ RdepIdle
    /\ ParseIdle
    /\ BesideValidIdle

\* Lines 67-81: one iteration of the loop.
CheckOverride ==
    /\ vpc = "loop"
    /\ override_pos < Len(overrides)
    /\ override_pos' = override_pos + 1
    /\ LET o == overrides[override_pos + 1]
       IN IF o.type \notin OverrideTypes
          THEN /\ valid' = [valid EXCEPT ![override_pos + 1] = Flag(InDatabase(o))]
               /\ vpc' = "raised"
               /\ UNCHANGED all_valid
          ELSE /\ valid' = [valid EXCEPT ![override_pos + 1] =
                                            Flag(InDatabase(o) /\ SanityChecks(o))]
               /\ all_valid' = AllValid(all_valid, InDatabase(o) /\ SanityChecks(o))
               /\ UNCHANGED vpc
    /\ UNCHANGED overrides
    /\ UNCHANGED besideValid

\* Line 82.
ReturnAllValid ==
    /\ vpc = "loop"
    /\ override_pos = Len(overrides)
    /\ vpc' = "returned"
    /\ UNCHANGED <<overrides, valid, all_valid, override_pos>>
    /\ UNCHANGED besideValid

ValidNext ==
    \/ CheckOverride
    \/ ReturnAllValid

(***************************************************************************)
(*                                send_mail                                *)
(***************************************************************************)

\* A recipient as written in a header; fix_maintainer gives its address.
Recipient(name, mail) == [name |-> name, mail |-> mail]

\* Line 374: mail, the fourth value of fix_maintainer(item.strip()).
Mail(item) == item.mail

Header(items) == [present |-> TRUE, items |-> items]

\* A line of a whitelist file: a comment or blank line (re_whitespace_comment),
\* a line carrying the mark of a regular expression (re_re_mark), text being
\* the stripped line without the mark, or another line, text being the
\* stripped line.
Line(kind, text) == [kind |-> kind, text |-> text]

\* The whitelist files.
WhitelistFile(path) ==
    CASE path = "w1" -> << Line("plain", <<"a", "@", "x">>) >>
      [] path = "w2" -> << Line("comment", <<"#">>), Line("re", <<"b", "@", "x", "$">>) >>
      [] path = "wg" -> << Line("plain", <<"c", "@", "x">>) >>

\* A compiled pattern of literal characters, with or without a final $.
Pattern(literal, anchored) == [literal |-> literal, anchored |-> anchored]

\* Lines 361-364: re.compile of the expression, or of the escaped line.
Compile(line) ==
    IF line.kind = "re" /\ Len(line.text) > 0 /\ line.text[Len(line.text)] = "$"
    THEN Pattern(SubSeq(line.text, 1, Len(line.text) - 1), TRUE)
    ELSE Pattern(line.text, FALSE)

\* Lines 359-364: the patterns of one file.
RECURSIVE CompileLines(_)
CompileLines(lines) ==
    IF lines = <<>> THEN <<>>
    ELSE (IF Head(lines).kind = "comment" THEN <<>> ELSE << Compile(Head(lines)) >>)
         \o CompileLines(Tail(lines))

\* Lines 357-364: the patterns of all files.
RECURSIVE CompileFiles(_)
CompileFiles(paths) ==
    IF paths = <<>> THEN <<>>
    ELSE CompileLines(WhitelistFile(Head(paths))) \o CompileFiles(Tail(paths))

\* Line 377: wr.match(mail), a match at the start of the address.
Match(wr, mail) ==
    /\ StartsWith(mail, wr.literal)
    /\ wr.anchored => Len(mail) = Len(wr.literal)

\* Lines 375-379.
MailWhitelisted(wl, mail) == \E i \in 1..Len(wl) : Match(wl[i], mail)

\* Lines 370-389: the header after the check of its items.
CheckField(wl, header) ==
    IF ~header.present THEN header
    ELSE LET keep(item) == MailWhitelisted(wl, Mail(item))
             match == SelectSeq(header.items, keep)
         IN IF Len(match) = 0 THEN NoHeader ELSE Header(match)

\* Lines 394-398: the first header present, of Cc, Bcc and To, becomes To.
MoveToTo(m) ==
    IF m.Cc.present THEN [m EXCEPT !.To = m.Cc, !.Cc = NoHeader]
    ELSE IF m.Bcc.present THEN [m EXCEPT !.To = m.Bcc, !.Bcc = NoHeader]
    ELSE m

\* Line 351.
WhitelistsEverything(w) ==
    w.none \/ \E i \in 1..Len(w.paths) : w.paths[i] = "None"

MailA == Recipient("n", <<"a", "@", "x">>)
MailAY == Recipient("n", <<"a", "@", "x", "y">>)
MailB == Recipient("m", <<"b", "@", "x">>)
MailC == Recipient("m", <<"c", "@", "x">>)

\* The headers of the messages sent.
ToHeaders == {NoHeader, Header(<<MailA>>), Header(<<MailAY>>), Header(<<MailB, MailA>>),
              Header(<<MailC>>)}
CcHeaders == {NoHeader, Header(<<MailA>>), Header(<<MailC>>), Header(<<MailAY, MailB>>)}
BccHeaders == {NoHeader, Header(<<MailB>>), Header(<<MailC>>)}

\* The most paths given in whitelists.
MaxWhitelists == 2

MailInit ==
    /\ message \in [To : ToHeaders, Cc : CcHeaders, Bcc : BccHeaders]
    /\ \/ whitelists_given = NoWhitelists
       \/ \E n \in 0..MaxWhitelists :
             \E paths \in [1..n -> {"w1", "w2", "None"}] :
                whitelists_given = [none |-> FALSE, paths |-> paths]
    /\ whitelists = whitelists_given
    /\ mail_whitelist \in {"", "wg"}
    /\ no_mail \in BOOLEAN
    /\ msg = NoHeaders
    /\ whitelist = <<>>
    /\ call_sendmail = TRUE
    /\ handed = NoHeaders
    /\ mpc = "start"
    /\ RdepIdle
    /\ ParseIdle
    /\ BesideMailIdle

\* Lines 338-354.
MailStart ==
    /\ mpc = "start"
    /\ msg' = message
    /\ call_sendmail' = ~no_mail
    /\ LET paths == IF WhitelistsEverything(whitelists) THEN <<>> ELSE whitelists.paths
       IN whitelists' = [none |-> FALSE,
                         paths |-> IF mail_whitelist # ""
                                   THEN Append(paths, mail_whitelist) ELSE paths]
    /\ mpc' = "whitelists"
    /\ UNCHANGED <<message, whitelists_given, mail_whitelist, no_mail, whitelist, handed>>
    /\ UNCHANGED besideMail

\* Lines 355-401, no whitelist to apply.
NoWhitelist ==
    /\ mpc = "whitelists"
    /\ Len(whitelists.paths) = 0
    /\ mpc' = "deliver"
    /\ UNCHANGED <<message, whitelists_given, whitelists, mail_whitelist, no_mail, msg, whitelist,
                   call_sendmail, handed>>
    /\ UNCHANGED besideMail

\* Lines 355-364.
ReadWhitelists ==
    /\ mpc = "whitelists"
    /\ Len(whitelists.paths) # 0
    /\ whitelist' = CompileFiles(whitelists.paths)
    /\ mpc' = "fields"
    /\ UNCHANGED <<message, whitelists_given, whitelists, mail_whitelist, no_mail, msg,
                   call_sendmail, handed>>
    /\ UNCHANGED besideMail

\* Lines 366-389.
CheckFields ==
    /\ mpc = "fields"
    /\ msg' = [To |-> CheckField(whitelist, msg.To),
               Bcc |-> CheckField(whitelist, msg.Bcc),
               Cc |-> CheckField(whitelist, msg.Cc)]
    /\ mpc' = "reorder"
    /\ UNCHANGED <<message, whitelists_given, whitelists, mail_whitelist, no_mail, whitelist,
                   call_sendmail, handed>>
    /\ UNCHANGED besideMail

\* Lines 391-401.
Reorder ==
    /\ mpc = "reorder"
    /\ IF msg.To.present
       THEN UNCHANGED <<msg, call_sendmail>>
       ELSE /\ msg' = MoveToTo(msg)
            /\ call_sendmail' = (call_sendmail /\ (msg.Cc.present \/ msg.Bcc.present))
    /\ mpc' = "deliver"
    /\ UNCHANGED <<message, whitelists_given, whitelists, mail_whitelist, no_mail, whitelist, handed>>
    /\ UNCHANGED besideMail

\* Lines 403-425, call_sendmail false.
ReturnUnsent ==
    /\ mpc = "deliver"
    /\ ~call_sendmail
    /\ mpc' = "returned"
    /\ UNCHANGED <<message, whitelists_given, whitelists, mail_whitelist, no_mail, msg, whitelist,
                   call_sendmail, handed>>
    /\ UNCHANGED besideMail

\* Lines 403-432: the sendmail command run; it succeeds or fails.
Sendmail ==
    /\ mpc = "deliver"
    /\ call_sendmail
    /\ handed' = msg
    /\ \E status \in {"sent", "SendmailFailedError"} : mpc' = status
    /\ UNCHANGED <<message, whitelists_given, whitelists, mail_whitelist, no_mail, msg, whitelist,
                   call_sendmail>>
    /\ UNCHANGED besideMail

MailNext ==
    \/ MailStart
    \/ NoWhitelist
    \/ ReadWhitelists
    \/ CheckFields
    \/ Reorder
    \/ ReturnUnsent
    \/ Sendmail

(***************************************************************************)
(*                           find_next_free                                *)
(***************************************************************************)

\* The largest too_many tried.
MaxTooMany == 3

\* dest = orig_dest + '.' + repr(extra) (line 531): paths are sequences, the
\* name given, and the name followed by a dot and a number.
Numbered(orig, n) == orig \o <<".", n>>

\* The name every run is given.
GivenDest == <<"f">>

\* The paths a run with the largest too_many can ask about.
Paths == {GivenDest} \cup {Numbered(GivenDest, n) : n \in 0..(MaxTooMany - 1)}

\* while os.path.lexists(dest) and extra < too_many (line 530).
LoopGoesOn(exists, n, many) == exists /\ n < many

FreeInit ==
    /\ orig_dest = GivenDest
    /\ too_many \in 1..MaxTooMany
    /\ lexists \in SUBSET Paths
    /\ dest = GivenDest
    /\ extra = 0
    /\ probed = <<>>
    /\ fpc = "loop"
    /\ RdepIdle /\ ParseIdle /\ BesideFreeIdle

\* One turn of the loop (lines 530-532): dest exists and extra is below
\* too_many, so the next numbered name is built.
ProbeNext ==
    /\ fpc = "loop"
    /\ LoopGoesOn(dest \in lexists, extra, too_many)
    /\ probed' = Append(probed, dest)
    /\ dest' = Numbered(orig_dest, extra)
    /\ extra' = extra + 1
    /\ UNCHANGED <<orig_dest, too_many, lexists, fpc>>
    /\ UNCHANGED besideFree

\* The loop ends (line 530) on a free name, whose test is recorded, or on the
\* bound, and the function raises or returns (lines 533-535).
LeaveLoop ==
    /\ fpc = "loop"
    /\ ~LoopGoesOn(dest \in lexists, extra, too_many)
    /\ probed' = Append(probed, dest)
    /\ fpc' = IF extra >= too_many THEN "NoFreeFilenameError" ELSE "returned"
    /\ UNCHANGED <<orig_dest, too_many, lexists, dest, extra>>
    /\ UNCHANGED besideFree

FreeNext == ProbeNext \/ LeaveLoop

(***************************************************************************)
(*                            Specifications                               *)
(***************************************************************************)

SpecRdep == RdepInit /\ [][RdepNext]_vars

SpecParse == ParseInit /\ [][ParseNext]_vars

SpecList == ListInit /\ [][ListNext]_vars

SpecDsc == DscInit /\ [][DscNext]_vars

SpecCache == CacheInit /\ [][CacheNext]_vars

SpecValid == ValidInit /\ [][ValidNext]_vars

SpecMail == MailInit /\ [][MailNext]_vars
SpecFree == FreeInit /\ [][FreeNext]_vars

(***************************************************************************)
(*                 Properties of check_reverse_depends                     *)
(***************************************************************************)

\* The architecture last iterated was scanned and its Depends were checked.
JustProcessed == rpc = "loop" /\ architecture \in processed

ProvidedBy(p) ==
    IF rows[p].present /\ rows[p].provides.given
    THEN {rows[p].provides.names[i] : i \in 1..Len(rows[p].provides.names)}
    ELSE {}

RecordedBroken(p) ==
    <<BrokenKey(SourceOf(p), ComponentOf(p)), p, architecture>> \in all_broken

\* Package A, not to be removed, has a Depends clause whose only alternative
\* is V, and V is provided by B alone, B being removed.
VirtualClosureCase(A, B, V) ==
    /\ V \in ProvidedBy(B)
    /\ \A o \in Pkgs \ {B} : V \notin ProvidedBy(o)
    /\ B \in removals
    /\ rows[A].present
    /\ A \notin removals
    /\ \E i \in 1..Len(ParsedDep(rows[A].depends)) :
          /\ Len(ParsedDep(rows[A].depends)[i]) = 1
          /\ ParsedDep(rows[A].depends)[i][1][1] = V

\* C1: on a processed architecture, if virtual name V is provided by B alone,
\* B is in the removal set, and surviving package A has a Depends clause whose
\* only alternative is V, then A is recorded as broken on that architecture
\* and the analysis returns true.
C1_VirtualClosureBreaks ==
    JustProcessed =>
        \A A \in Pkgs, B \in Pkgs, V \in Names :
            VirtualClosureCase(A, B, V) => RecordedBroken(A) /\ dep_problem

\* C2: for every package not in the removal set, a Depends clause with an
\* alternative outside the effective removal set is never recorded as broken
\* (whatever its version constraint), and a clause all of whose alternatives
\* are in the caller-supplied removal set is always recorded as broken.
C2_OrSemantics ==
    JustProcessed =>
        \A p \in Pkgs :
            (rows[p].present /\ p \notin removals) =>
                \A i \in 1..Len(ParsedDep(rows[p].depends)) :
                    LET dep == ParsedDep(rows[p].depends)[i]
                    IN /\ (\E j \in 1..Len(dep) : dep[j][1] \notin removal_set)
                            => <<architecture, p, i>> \notin broken_log
                       /\ (\A j \in 1..Len(dep) : dep[j][1] \in removals)
                            => /\ <<architecture, p, i>> \in broken_log
                               /\ RecordedBroken(p)

\* A surviving package with the clauses "b (>= 1) | d" and "b", where only b
\* is removed: the first clause is not recorded, the second is.
C2_Witness ==
    /\ JustProcessed
    /\ removals = {"b"}
    /\ "d" \notin removal_set
    /\ rows["a"].present
    /\ rows["a"].depends = Depends(<< <<AltVer("b"), Alt("d")>>, <<Alt("b")>> >>)
    /\ <<architecture, "a", 1>> \notin broken_log
    /\ <<architecture, "a", 2>> \in broken_log

\* C3: the value returned is true exactly when some Depends clause of a
\* surviving binary or some build-dependency clause of a surviving source was
\* found broken, that is exactly when the binary breakage map or the
\* build-dependency breakage map is non-empty, whatever quiet and cruft are.
C3_ResultIffBroken ==
    rpc = "done" =>
        /\ dep_problem = (broken_log # {} \/ all_broken_bd # {})
        /\ dep_problem = (all_broken # {} \/ all_broken_bd # {})

\* The analysis returned true with the report suppressed, on binary breakage
\* alone.
C3_Witness ==
    /\ rpc = "done"
    /\ quiet
    /\ dep_problem
    /\ all_broken # {}
    /\ all_broken_bd = {}
    /\ output = NoOutput

\* Package p provides the name V on the architecture whose rows are rs, V
\* not being its own name.
ProvidesOn(rs, p, V) ==
    /\ rs[p].present
    /\ rs[p].provides.given
    /\ V # p
    /\ \E i \in 1..Len(rs[p].provides.names) : rs[p].provides.names[i] = V

\* The names provided on the architecture by packages of the caller's
\* removal set only.
ProvidedByRemovedOnly(rs) ==
    {V \in Names : /\ \E p \in Pkgs : ProvidesOn(rs, p, V)
                   /\ \A p \in Pkgs \ removals : ~ProvidesOn(rs, p, V)}

\* C21: the scan of an architecture adds to the effective removal set
\* exactly the names provided on that architecture, other than as the
\* package's own name, that no package outside the caller's removal set
\* provides there; the names added before or in the same pass play no part.
C21_OneShotClosure ==
    [][(rpc = "loop" /\ processed' # processed) =>
          removal_set' = removal_set \cup ProvidedByRemovedOnly(rows')]_vars

\* b, removed, provides d alone, so d is added; d, not in the caller's set,
\* provides v, and v is not added.
C21_Witness ==
    /\ JustProcessed
    /\ removals = {"b"}
    /\ rows["b"].provides = Provides(<<"d">>)
    /\ rows["d"].present
    /\ rows["d"].provides = Provides(<<"v">>)
    /\ "d" \in removal_set
    /\ "v" \notin removal_set

\* C22: while an architecture is processed the effective removal set is the
\* caller's removal set plus the names whose providers on that architecture
\* are all being removed, and nothing carried over from another architecture.
C22_ClosurePerArchitecture ==
    JustProcessed => removal_set = removals \cup ProvidedByRemovedOnly(rows)

\* C23: no binary package of the caller's removal set is recorded in the
\* binary breakage map and no source of the removal set is recorded in the
\* build-dependency breakage map.
C23_OnlySurvivorsRecorded ==
    /\ \A e \in all_broken : e[2] \notin removals
    /\ \A e \in broken_log : e[2] \notin removals
    /\ \A e \in all_broken_bd : e[1][1] \notin removals

\* a and b are removed; a has a clause on b alone and is not recorded,
\* while d, which survives and depends on b, is.
C23_Witness ==
    /\ JustProcessed
    /\ removals = {"a", "b"}
    /\ rows["a"].present
    /\ rows["a"].depends = Depends(<< <<AltVer("b"), Alt("d")>>, <<Alt("b")>> >>)
    /\ rows["d"].present
    /\ rows["d"].depends = Depends(<< <<Alt("b")>> >>)
    /\ RecordedBroken("d")
    /\ ~RecordedBroken("a")

SourcePassDone == rpc \in {"render_bd", "done"}

\* The build-dependency clauses examined for source s: those of
\* Build-Depends, and those of Build-Depends-Indep when include_arch_all is
\* set.
ExaminedBuildDeps(s) ==
    src_meta[s].bd.clauses
        \o (IF include_arch_all THEN src_meta[s].bdi.clauses ELSE <<>>)

\* The build-dependency text examined for source s parses.
BuildDepsParse(s) ==
    /\ src_meta[s].bd.ok
    /\ include_arch_all => src_meta[s].bdi.ok

AllAlternativesRemoved(dep) == \A j \in 1..Len(dep) : dep[j][1] \in removals

SourceKey(s) ==
    IF ComponentOf(s) = "main" THEN <<s>> ELSE <<s, ComponentOf(s)>>

\* C24: the source-level pass runs when no architecture is left; for a
\* surviving source whose text parses, a clause of Build-Depends, or of
\* Build-Depends-Indep when include_arch_all is set, is recorded under the
\* source, or source and component outside main, if and only if all its
\* alternatives are removed; nothing else is recorded, and equal clauses
\* give one message.
C24_SourcePass ==
    SourcePassDone =>
       /\ rdep_todo = {}
       /\ \A s \in Sources \ removals :
             BuildDepsParse(s) =>
                \A i \in 1..Len(ExaminedBuildDeps(s)) :
                   AllAlternativesRemoved(ExaminedBuildDeps(s)[i])
                      <=> <<SourceKey(s), ExaminedBuildDeps(s)[i]>> \in all_broken_bd
       /\ \A e \in all_broken_bd :
             \E s \in Sources \ removals :
                /\ e[1] = SourceKey(s)
                /\ \E i \in 1..Len(ExaminedBuildDeps(s)) :
                      /\ e[2] = ExaminedBuildDeps(s)[i]
                      /\ AllAlternativesRemoved(e[2])

\* Without include_arch_all and with d removed: the clause "b | d" of a is
\* examined and holds, the Build-Depends-Indep clause of a is not examined,
\* and the clause "d" of b is recorded under b/contrib.
C24_Witness ==
    /\ rpc = "done"
    /\ ~include_arch_all
    /\ removals = {"d"}
    /\ src_meta["a"].bd = Depends(<< <<Alt("b"), Alt("d")>> >>)
    /\ src_meta["a"].bdi = Depends(<< <<Alt("b")>> >>)
    /\ src_meta["b"].bd = Depends(<< <<Alt("d")>> >>)
    /\ all_broken_bd = { << <<"b", "contrib">>, <<Alt("d")>> >> }

\* The key of binary p in the binary breakage map: its source, with the
\* component outside main.
BinaryKey(p) ==
    IF ComponentOf(p) = "main" THEN <<SourceOf(p)>> ELSE <<SourceOf(p), ComponentOf(p)>>

\* The entries of the binary breakage map that the packages whose Depends
\* parses call for on architecture arch, the rows being rs.
ExpectedBrokenBinaries(rs, arch) ==
    {<<BinaryKey(p), p, arch>> :
        p \in {q \in Pkgs \ removals :
                  /\ rs[q].present
                  /\ rs[q].depends.given
                  /\ rs[q].depends.ok
                  /\ \E i \in 1..Len(rs[q].depends.clauses) :
                        AllAlternativesRemoved(rs[q].depends.clauses[i])}}

\* The entries of the build-dependency breakage map that the sources whose
\* text parses call for.
ExpectedBrokenBuildDeps ==
    UNION {{<<SourceKey(s), ExaminedBuildDeps(s)[i]>> :
                i \in {j \in 1..Len(ExaminedBuildDeps(s)) :
                          AllAlternativesRemoved(ExaminedBuildDeps(s)[j])}}
           : s \in {t \in Sources \ removals : BuildDepsParse(t)}}

\* C25: a package whose Depends does not parse, and a source whose
\* build-dependency text does not parse, add no breakage record and do not
\* set the result; the other packages and sources are examined, and the
\* records and the result are those of the packages and sources that parse.
C25_UnparseableSkipped ==
    /\ [][(rpc = "loop" /\ processed' # processed) =>
             /\ all_broken' = all_broken \cup ExpectedBrokenBinaries(rows', architecture')
             /\ dep_problem' = (dep_problem
                                   \/ ExpectedBrokenBinaries(rows', architecture') # {})]_vars
    /\ [](SourcePassDone =>
             /\ all_broken_bd = ExpectedBrokenBuildDeps
             /\ dep_problem = (all_broken # {} \/ ExpectedBrokenBuildDeps # {}))

\* The Depends of a does not parse; d, scanned with it, depends on the
\* removed b and is recorded, a is not.
C25_Witness ==
    /\ JustProcessed
    /\ removals = {"b"}
    /\ rows["a"].present
    /\ rows["a"].depends = Unparseable
    /\ rows["d"].present
    /\ rows["d"].depends = Depends(<< <<Alt("b")>> >>)
    /\ RecordedBroken("d")
    /\ ~RecordedBroken("a")
    /\ dep_problem

(***************************************************************************)
(*              Properties of parse_deb822 and parse_changes               *)
(***************************************************************************)

\* The line fits none of the three accepted shapes: field, literal " .",
\* whitespace-led continuation.
Unparseable822(line) == ~IsField(line) /\ line # DotLine /\ ~IsContinuation(line)

\* The lines of no accepted shape, concatenated in their order.
RECURSIVE ConcatUnparseable(_)
ConcatUnparseable(lines) ==
    IF lines = <<>> THEN <<>>
    ELSE (IF Unparseable822(lines[1]) THEN lines[1] ELSE <<>>)
            \o ConcatUnparseable(Tail(lines))

\* The mandatory fields the record lacks, in the order of must_keywords.
AllMissing(ch) == SelectSeq(must_keywords, LAMBDA k : Lower(k) \notin DOMAIN ch)

\* parse_deb822 has ended, by a return or by an exception of its own.
Deb822Ended == ppc \in {"parsed", "returned", "raised"}

MandatoryCheckFailed == ppc = "raised" /\ raised.why = "missing mandatory fields"

FormatErrorOf822 ==
    ppc = "raised" /\ raised.kind = "ParseChangesError" /\ ~MandatoryCheckFailed

\* C4: parse_changes on a non-dsc file whose record lacks mandatory fields
\* fails with one error naming every missing mandatory field; with dsc_file
\* no mandatory-field check is made.
C4_AllMissingFieldsNamed ==
    /\ MandatoryCheckFailed => (~dsc_file /\ raised.missing = AllMissing(changes))
    /\ ppc = "returned" => (dsc_file \/ AllMissing(changes) = <<>>)

\* C5 as claimed: every format error of parse_deb822 is raised with all lines
\* scanned and enumerates every line of no accepted shape.
C5_FormatErrorEnumeratesEveryLine ==
    (FormatErrorOf822 /\ indexed_lines # <<>>) =>
        /\ index = Len(indexed_lines)
        /\ raised.text = ConcatUnparseable(indexed_lines)

\* C5 as amended: a format error of parse_deb822 is either the error for an
\* empty payload, or the aggregated error, raised with all lines scanned and
\* enumerating every line of no accepted shape, or the error for a
\* continuation line that no field precedes, which stops the scan at that
\* line and names that line alone.
C5_FormatErrorKinds ==
    FormatErrorOf822 =>
        \/ raised.why = "empty" /\ contents = <<>>
        \/ /\ raised.why = "unparseable"
           /\ index = Len(indexed_lines)
           /\ raised.text = ConcatUnparseable(indexed_lines)
        \/ /\ raised.why = "continuing from nothing"
           /\ index \in 1..Len(indexed_lines)
           /\ IsContinuation(indexed_lines[index])
           /\ raised.text = indexed_lines[index]
           /\ \A j \in 1..(index - 1) : ~IsField(indexed_lines[j])

\* A continuation line before any field stopped the scan at line 1 of 2, and
\* the bad line after it is not in the error.
C5_Witness ==
    /\ FormatErrorOf822
    /\ raised.why = "continuing from nothing"
    /\ indexed_lines = << <<" ", "c">>, <<"x">> >>
    /\ index = 1
    /\ raised.text = <<" ", "c">>

\* Every continuation line, the literal " ." line included, follows some
\* field.
ContinuationsFollowFields(lines) ==
    \A i \in 1..Len(lines) :
        (~IsField(lines[i]) /\ IsContinuation(lines[i]))
            => \E j \in 1..(i - 1) : IsField(lines[j])

\* parse_deb822 failed after the scan of all lines with the format error made
\* of the lines of no accepted shape.
AggregatedError(lines) ==
    /\ ppc = "raised"
    /\ raised.kind = "ParseChangesError"
    /\ raised.why = "unparseable"
    /\ index = Len(lines)
    /\ raised.text = ConcatUnparseable(lines)

\* C6 as claimed: when every continuation line follows some field and some
\* stored line fits none of the three shapes, parse_deb822 scans all lines and
\* fails with a format error whose message is exactly those lines in order.
C6_BadLinesAggregated ==
    (/\ Deb822Ended
     /\ indexed_lines # <<>>
     /\ ContinuationsFollowFields(indexed_lines)
     /\ \E i \in 1..Len(indexed_lines) : Unparseable822(indexed_lines[i]))
        => AggregatedError(indexed_lines)

\* C6 as amended: when every continuation line follows some field, no empty
\* line stands before the last line in strict mode, and some non-empty stored
\* line fits none of the three shapes, parse_deb822 scans all lines and fails
\* with a format error whose message is exactly those lines in order.
C6_NonEmptyBadLinesAggregated ==
    (/\ Deb822Ended
     /\ indexed_lines # <<>>
     /\ ContinuationsFollowFields(indexed_lines)
     /\ signing_rules = 1 =>
           \A i \in 1..(Len(indexed_lines) - 1) : indexed_lines[i] # <<>>
     /\ \E i \in 1..Len(indexed_lines) :
           Unparseable822(indexed_lines[i]) /\ indexed_lines[i] # <<>>)
        => AggregatedError(indexed_lines)

\* Two bad lines with a valid field between them, reported in their order.
C6_Witness ==
    /\ indexed_lines = << <<"y">>, <<"k", ":">>, <<"x">> >>
    /\ AggregatedError(indexed_lines)
    /\ raised.text = <<"y", "x">>
    /\ <<"k">> \in DOMAIN changes

\* The scan takes a continuation line and goes on.
ContinuationTaken ==
    /\ ppc = "scan"
    /\ index < Len(indexed_lines)
    /\ index' = index + 1
    /\ ppc' \in {"scan", "finish"}
    /\ ~IsField(indexed_lines[index + 1])
    /\ indexed_lines[index + 1] # DotLine
    /\ IsContinuation(indexed_lines[index + 1])

\* The key of the last field line among the first n lines.
LastFieldKey(lines, n) ==
    Lower(FieldKey(lines[CHOOSE j \in 1..n :
                            IsField(lines[j]) /\ \A m \in (j + 1)..n : ~IsField(lines[m])]))

\* The continuation line taken directly follows a single-line field.
FollowsField == index >= 1 /\ IsField(indexed_lines[index])

\* The continuation line taken follows an earlier continuation line of the
\* same field.
FollowsContinuation ==
    \E j \in 1..index :
        /\ ~IsField(indexed_lines[j])
        /\ indexed_lines[j] # DotLine
        /\ IsContinuation(indexed_lines[j])
        /\ \A m \in j..index : ~IsField(indexed_lines[m])

ContinuationAppended(sep) ==
    LET line == indexed_lines[index + 1]
        key == LastFieldKey(indexed_lines, index)
    IN /\ FollowsField =>
            changes'[key] = FieldValue(indexed_lines[index]) \o sep
                                \o ContinuationContent(line) \o <<"\n">>
       /\ FollowsContinuation =>
            changes'[key] = changes[key] \o ContinuationContent(line) \o <<"\n">>

\* C7 as claimed: a continuation line directly after a single-line field is
\* appended after a newline separator, also when the first-line value is
\* empty; later continuation lines of the field are appended, content plus
\* newline, with no extra separator.
C7_SeparatorAlways ==
    [][ContinuationTaken => ContinuationAppended(<<"\n">>)]_vars

\* C7 as amended: the newline separator is placed only when the first-line
\* value is not empty; after an empty first-line value the continuation
\* content directly starts the value.
C7_SeparatorUnlessEmpty ==
    [][ContinuationTaken =>
          ContinuationAppended(IF FollowsField /\ FieldValue(indexed_lines[index]) = <<>>
                               THEN <<>> ELSE <<"\n">>)]_vars

\* A continuation line taken right after the field "k:" of empty value, and a
\* second continuation line after it.
C7_Witness ==
    /\ indexed_lines = << <<"k", ":">>, <<" ", "c">>, <<" ", "c">> >>
    /\ index = 3
    /\ changes[ <<"k">> ] = <<"c", "\n", "c", "\n">>

NameVersionForm(s, i, j) ==
    /\ 1 <= i /\ i + 1 < j /\ j + 1 < Len(s)
    /\ \A m \in 1..i : ~IsSpace(s[m])
    /\ \A m \in (i + 1)..(j - 1) : IsSpace(s[m])
    /\ s[j] = "("
    /\ \A m \in (j + 1)..(Len(s) - 1) : ~IsSpace(s[m])
    /\ s[Len(s)] = ")"

\* C9: when parse_deb822 returns, a source field of the form
\* "name (version)" holds only name and source-version holds version; a
\* source field of another form is unchanged and the split adds no
\* source-version field.
C9_SourceVersionSplit ==
    [][(ppc = "finish" /\ ppc' = "parsed") =>
          IF /\ SOURCE \in DOMAIN changes
             /\ \E i, j \in 1..Len(changes[SOURCE]) : NameVersionForm(changes[SOURCE], i, j)
          THEN \E i, j \in 1..Len(changes[SOURCE]) :
                  /\ NameVersionForm(changes[SOURCE], i, j)
                  /\ changes'[SOURCE] = SubSeq(changes[SOURCE], 1, i)
                  /\ changes'[SOURCE_VERSION] =
                        SubSeq(changes[SOURCE], j + 1, Len(changes[SOURCE]) - 1)
          ELSE /\ SOURCE \in DOMAIN changes =>
                    /\ SOURCE \in DOMAIN changes'
                    /\ changes'[SOURCE] = changes[SOURCE]
               /\ SOURCE_VERSION \in DOMAIN changes' => SOURCE_VERSION \in DOMAIN changes
       ]_vars

\* "Source: n (1)" was parsed into source "n" and source-version "1".
C9_Witness ==
    /\ ppc = "parsed"
    /\ indexed_lines = << <<"S", "o", "u", "r", "c", "e", ":", " ", "n", " ", "(", "1", ")">> >>
    /\ changes[SOURCE] = <<"n">>
    /\ changes[SOURCE_VERSION] = <<"1">>

\* C10: an unsigned payload is interpreted only under the explicit opt-out
\* signing_rules = -1; with signing_rules = 0, the default, unsigned input is
\* rejected.
C10_SignatureMandatoryByDefault ==
    (signed = "unsigned" /\ indexed_lines # <<>>) => signing_rules = -1

\* The error kinds parse_deb822 declares: the format error, the strict-mode
\* structural error and the error of the verifier.
DeclaredErrorKinds == {"ParseChangesError", "InvalidDscError", "GpgException"}

\* C27: for a non-empty payload parse_deb822 returns a record or fails with
\* one of its declared error kinds, whatever the lines are.
C27_OnlyDeclaredErrors ==
    (contents # <<>> /\ ppc = "raised") => raised.kind \in DeclaredErrorKinds

\* A physical line without its line terminator.
StripTerminator(line) ==
    IF Len(line) >= 2 /\ SubSeq(line, Len(line) - 1, Len(line)) = <<"\r", "\n">>
    THEN SubSeq(line, 1, Len(line) - 2)
    ELSE IF Len(line) >= 1 /\ line[Len(line)] \in {"\n", "\r"}
    THEN SubSeq(line, 1, Len(line) - 1)
    ELSE line

\* C28: each line is matched without its line terminator and with all of
\* its content, whether the lines end in LF or CRLF and whether or not the
\* last line has a terminator.
C28_OnlyTerminatorRemoved ==
    indexed_lines # <<>> =>
       \A i \in 1..Len(indexed_lines) :
          indexed_lines[i] = StripTerminator(SplitLines(contents)[i])

\* C29: outside strict mode the scan of a physical line that is empty but
\* for its terminator changes no field value, starts and ends no field, adds
\* nothing to the error buffer and raises nothing, so that the lines after
\* it extend the field before it.
C29_EmptyLineContributesNothing ==
    [][(/\ ppc = "scan"
        /\ index' = index + 1
        /\ signing_rules # 1
        /\ StripTerminator(SplitLines(contents)[index']) = <<>>) =>
          /\ changes' = changes
          /\ field' = field
          /\ first' = first
          /\ error' = error
          /\ raised' = raised]_vars

(***************************************************************************)
(*                     Properties of build_file_list                       *)
(***************************************************************************)

\* The number of whitespace-separated tokens of a line.
TokenCount(line) ==
    Cardinality({k \in 1..Len(line) :
                    ~IsSpace(line[k]) /\ (k = 1 \/ IsSpace(line[k - 1]))})

\* The token count a line must have.
ExpectedTokens == IF ~is_a_dsc /\ list_field = "files" THEN 5 ELSE 3

\* The index of the first empty line of the field, or one more than the
\* number of lines when there is none.
FirstEmptyLine(lines) ==
    IF \E k \in 1..Len(lines) : lines[k] = <<>>
    THEN CHOOSE k \in 1..Len(lines) : lines[k] = <<>> /\ \A m \in 1..(k - 1) : lines[m] # <<>>
    ELSE Len(lines) + 1

\* The lines before the first empty line whose token count is not the
\* expected one.
WrongCountLines(lines) ==
    {k \in 1..(FirstEmptyLine(lines) - 1) : TokenCount(lines[k]) # ExpectedTokens}

ListEnded == lpc \in {"returned", "raised"}

\* C11: when the field is present and the declared format is accepted, a
\* line before the first empty line with a wrong token count makes
\* build_file_list fail at the first such line with a ParseChangesError whose
\* message is that raw line, nothing being returned; without such a line the
\* call returns; no line after the first empty line is ever taken.
C11_WrongTokenCount ==
    list_lines # <<>> =>
        /\ list_lines = SplitNewline(list_value)
        /\ list_pos <= FirstEmptyLine(list_lines)
        /\ list_pos <= Len(list_lines)
        /\ ListEnded =>
              IF WrongCountLines(list_lines) # {}
              THEN LET k == CHOOSE j \in WrongCountLines(list_lines) :
                                \A m \in WrongCountLines(list_lines) : j <= m
                   IN /\ lpc = "raised"
                      /\ list_raised = [kind |-> "ParseChangesError", text |-> list_lines[k]]
                      /\ list_pos = k
              ELSE lpc = "returned" /\ list_raised = NoListError

\* The second of three lines has four tokens where five are expected: the
\* call failed there, naming that line, with a good line before and a line
\* after it.
C11_Witness ==
    /\ ~is_a_dsc
    /\ list_field = "files"
    /\ list_lines = << <<"h", " ", "1", " ", "x", " ", "p", " ", "e">>, <<"h", " ", "1", " ", "x",
            " ", "f">>, <<"g", " ", "2", " ", "e">> >>
    /\ lpc = "raised"
    /\ list_raised.text = <<"h", " ", "1", " ", "x", " ", "f">>
    /\ list_pos = 2

HasSlash(token) == \E i \in 1..Len(token) : token[i] = "/"

\* token is before, "/", after, with no "/" in before.
SplitAtFirstSlash(token, before, after) ==
    /\ token = before \o <<"/">> \o after
    /\ \A i \in 1..Len(before) : before[i] # "/"

\* The loop takes a line of five tokens and stores its entry.
FiveTokenLineStored ==
    /\ lpc = "loop"
    /\ lpc' \in {"loop", "returned"}
    /\ list_pos' = list_pos + 1
    /\ ~is_a_dsc /\ list_field = "files"
    /\ list_lines[list_pos + 1] # <<>>

ComponentOfToken(token, component) ==
    IF HasSlash(token)
    THEN \E n \in 1..Len(token) :
            /\ token[n] = "/"
            /\ component = SubSeq(token, 1, n - 1)
            /\ ~HasSlash(component)
    ELSE component = MAIN

\* C13: every entry of the file list comes from a line taken whose section
\* token alone gives its component; an entry of a three-token line has
\* section "-", priority "-" and component "main".
C13_ComponentFromSection ==
    \A name \in DOMAIN files :
        \E k \in 1..list_pos :
            LET s == Tokens(list_lines[k])
            IN IF ExpectedTokens = 5
               THEN /\ Len(s) = 5
                    /\ s[5] = name
                    /\ ComponentOfToken(s[3], files[name].component)
               ELSE /\ Len(s) = 3
                    /\ s[3] = name
                    /\ files[name].section = DASH
                    /\ files[name].priority = DASH
                    /\ files[name].component = MAIN

\* A list of three-token lines was returned with the defaults in its entry.
C13_Witness ==
    /\ lpc = "returned"
    /\ is_a_dsc
    /\ list_lines = << <<"h", " ", "1", " ", "f">>, <<"g", " ", "2", " ", "e">> >>
    /\ files[ <<"f">> ].section = DASH
    /\ files[ <<"f">> ].priority = DASH
    /\ files[ <<"f">> ].component = MAIN
    /\ files[ <<"e">> ].component = MAIN

\* The filename token of line k.
NameOfLine(k) == Tokens(list_lines[k])[ExpectedTokens]

\* C14: the result has one entry per filename met, holding the checksum,
\* size, section, priority and component of the last line taken with that
\* filename; a filename met again raises no error.
C14_LastLineWins ==
    /\ lpc = "returned" =>
          LET taken == {k \in 1..list_pos : list_lines[k] # <<>>}
          IN /\ DOMAIN files = {NameOfLine(k) : k \in taken}
             /\ \A k \in taken :
                   (\A m \in taken : m > k => NameOfLine(m) # NameOfLine(k)) =>
                       LET s == Tokens(list_lines[k])
                           e == files[NameOfLine(k)]
                       IN /\ e.hash = s[1]
                          /\ e.size = s[2]
                          /\ e.section = (IF ExpectedTokens = 5 THEN s[3] ELSE DASH)
                          /\ e.priority = (IF ExpectedTokens = 5 THEN s[4] ELSE DASH)
                          /\ ComponentOfToken(e.section, e.component)
    /\ lpc = "raised" /\ list_lines # <<>> =>
          TokenCount(list_lines[list_pos]) # ExpectedTokens

\* Filename "f" is listed twice, with another filename between: the entry of
\* "f" is that of the last line and the entry of "e" is its own.
C14_Witness ==
    /\ lpc = "returned"
    /\ ~is_a_dsc
    /\ list_field = "files"
    /\ list_lines = << <<"h", " ", "1", " ", "c", "/", "x", " ", "p", " ", "f">>, <<"h", " ", "1", " ", "x", " ", "p", " ", "e">>, <<"g", " ", "2", " ", "c", "/", "x", "/", "y", " ", "q", " ", "f">> >>
    /\ DOMAIN files = { <<"f">>, <<"e">> }
    /\ files[ <<"f">> ].hash = <<"g">>
    /\ files[ <<"f">> ].size = <<"2">>
    /\ files[ <<"f">> ].priority = <<"q">>
    /\ files[ <<"e">> ].hash = <<"h">>

(***************************************************************************)
(*                     Properties of check_dsc_files                       *)
(***************************************************************************)

\* The messages of rejmsg.
Reported == {rejmsg[i] : i \in 1..Len(rejmsg)}

\* The filename at position i is a source file that no rule of the table
\* matches.
Unexpected(i) ==
    dsc_files[i].issource /\ \A r \in Rules : ~RuleMatches(r, dsc_files[i].ext)

\* The positions the loop examines: those up to the first unexpected source
\* file.
Examined ==
    {i \in 1..Len(dsc_files) : \A j \in 1..(i - 1) : ~Unexpected(j)}

\* The examined filenames that carry tag t: t is a key of the first rule
\* that matches them.
Carrying(t) ==
    {i \in Examined :
        /\ dsc_files[i].issource
        /\ \E r \in Rules :
              /\ RuleMatches(r, dsc_files[i].ext)
              /\ \A q \in 1..(r - 1) : ~RuleMatches(q, dsc_files[i].ext)
              /\ t \in RuleKeys(r)}

\* C15 as claimed: once a filename that is no plausible source filename has
\* been reported, no later filename is taken or classified and no further
\* violation is added.
C15_UnrecognisedShortCircuits ==
    \A u \in 1..dsc_pos :
        (~dsc_files[u].issource /\ \A j \in 1..(u - 1) : dsc_files[j].issource) =>
            /\ dsc_pos = u
            /\ rejmsg[Len(rejmsg)] = Msg("not recognised as source", dsc_files[u].name)
            /\ classified \subseteq {dsc_files[j].name : j \in 1..(u - 1)}

\* C15 as amended: a filename that is no plausible source filename is
\* reported and skipped; the filenames after it are still classified and
\* reported, and the multiplicity check and the format's tests still add
\* their violations.
C15_UnrecognisedIsSkipped ==
    dpc = "returned" =>
        /\ dsc_pos = Cardinality(Examined)
        /\ classified = {dsc_files[i].name : i \in {j \in Examined : dsc_files[j].issource}}
        /\ \A i \in Examined :
              Msg("not recognised as source", dsc_files[i].name) \in Reported
                  <=> ~dsc_files[i].issource
        /\ \A i \in Examined :
              Msg("unexpected source file", dsc_files[i].name) \in Reported
                  <=> Unexpected(i)
        /\ \A T \in {"orig_tar", "orig_tar_sig", "native_tar", "debian_tar", "debian_diff"} :
              Cardinality(Carrying(T)) > 1 => Msg("lists multiple", T) \in Reported
        /\ \A i \in 1..Len(FormatMsgs(dsc_format, has)) :
              FormatMsgs(dsc_format, has)[i] \in Reported

\* README was reported first; the two original tarballs after it were still
\* classified and reported as multiple, and the format's test added its
\* violation.
C15_Witness ==
    /\ dpc = "returned"
    /\ dsc_format = "1.0"
    /\ Len(dsc_files) = 3
    /\ dsc_files[1].name = "README"
    /\ classified = {"p_1.orig.tar.gz", "q_1.orig.tar.gz"}
    /\ rejmsg = << Msg("not recognised as source", "README"),
                   Msg("lists multiple", "orig_tar"),
                   Msg("format", "no tarball") >>

\* C16: once the multiplicity check has run, the violation "lists multiple
\* T" is in the result if and only if T is one of orig_tar, orig_tar_sig,
\* native_tar, debian_tar, debian_diff and more than one classified file
\* carries T; before the check there is none.
C16_MultipleIff ==
    /\ dpc \in {"format", "returned"} =>
          \A T \in Tags :
              Msg("lists multiple", T) \in Reported
                  <=> /\ T \in {"orig_tar", "orig_tar_sig", "native_tar", "debian_tar",
                                "debian_diff"}
                      /\ Cardinality(Carrying(T)) > 1
    /\ dpc \in {"loop", "multiple"} =>
          \A i \in 1..Len(rejmsg) : rejmsg[i].kind # "lists multiple"
    /\ \A i, j \in 1..Len(rejmsg) :
          (rejmsg[i].kind = "lists multiple" /\ rejmsg[i] = rejmsg[j]) => i = j

\* Two orig.tar.gz files and two extra original tarballs: only orig_tar is
\* reported as multiple.
C16_Witness ==
    /\ dpc = "returned"
    /\ classified = {"p_1.orig.tar.gz", "q_1.orig.tar.gz", "p_1.orig-c.tar.gz"}
    /\ has["orig_tar"] = 2
    /\ has["orig_tar_gz"] = 2
    /\ Msg("lists multiple", "orig_tar") \in Reported
    /\ \A i \in 1..Len(rejmsg) :
          rejmsg[i].kind = "lists multiple" => rejmsg[i].arg = "orig_tar"

\* C17: for a format no strategy recognises the step of the format's tests
\* adds nothing to the violations of the classification and of the
\* multiplicity check, and the call returns.
C17_UnknownFormatTolerated ==
    [][(dpc = "format" /\ dsc_format = "0.0") =>
          /\ dpc' = "returned"
          /\ rejmsg' = rejmsg
          /\ \A i \in 1..Len(rejmsg') :
                rejmsg'[i].kind \in {"not recognised as source", "unexpected source file",
                                     "lists multiple"}]_vars

\* A native tarball alone under an unknown format: the empty list is
\* returned.
C17_Witness ==
    /\ dpc = "returned"
    /\ dsc_format = "0.0"
    /\ Len(dsc_files) = 1
    /\ dsc_files[1].name = "p_1.tar.gz"
    /\ has["native_tar"] = 1
    /\ rejmsg = <<>>

\* The file-type suffix is that of a detached signature.
IsSignature(ext) ==
    Len(ext) >= 4 /\ SubSeq(ext, Len(ext) - 3, Len(ext)) = <<".", "a", "s", "c">>

TarballTags ==
    {"orig_tar_gz", "orig_tar", "native_tar_gz", "native_tar", "debian_tar", "more_orig_tar"}

\* The rule that precedes, in table order, every other rule matching ext.
IsFirstMatch(r, ext) ==
    /\ RuleMatches(r, ext)
    /\ \A q \in 1..(r - 1) : ~RuleMatches(q, ext)

\* C26: a filename recognised as a source file that some rule matches adds
\* one to the counter of each tag of the first rule, in table order, that
\* matches its suffix and leaves every other counter alone; a detached
\* signature is never counted under a tarball tag.
C26_FirstRuleCounts ==
    [][(dpc = "loop" /\ dsc_pos' = dsc_pos + 1 /\ dsc_files[dsc_pos'].issource) =>
          LET ext == dsc_files[dsc_pos'].ext
          IN /\ \A r \in Rules :
                   IsFirstMatch(r, ext) =>
                      \A t \in Tags :
                         has'[t] = IF t \in RuleKeys(r) THEN has[t] + 1 ELSE has[t]
             /\ IsSignature(ext) => \A t \in TarballTags : has'[t] = has[t]]_vars

\* The signatures of an original and of an extra original tarball, with the
\* original tarball itself: each is counted under its own tag only.
C26_Witness ==
    /\ dpc = "returned"
    /\ classified = {"p_1.orig.tar.gz.asc", "p_1.orig-c.tar.gz.asc", "p_1.orig.tar.gz"}
    /\ has["orig_tar_sig"] = 1
    /\ has["more_orig_tar_sig"] = 1
    /\ has["orig_tar"] = 1
    /\ has["orig_tar_gz"] = 1
    /\ has["more_orig_tar"] = 0
    /\ has["native_tar"] = 0

(***************************************************************************)
(*                  Properties of gpg_get_key_addresses                    *)
(***************************************************************************)

\* C18: once a list has been stored for a fingerprint, the cache keeps that
\* list for it, whatever the threads do, and every call that has returned
\* for that fingerprint since has returned that list.
C18_StoredEntryKept ==
    \A f \in DOMAIN stored :
        /\ f \in DOMAIN key_uid_email_cache
        /\ key_uid_email_cache[f] = stored[f]
        /\ \A t \in Threads :
              (cpc[t] = "idle" /\ fingerprint[t] = f /\ result[t].known) =>
                  result[t].list = stored[f]

(***************************************************************************)
(*                        Properties of check_valid                        *)
(***************************************************************************)

\* The override is valid: its priority, its section and its mapped component
\* exist, a udeb is in section debian-installer, and a debian-installer
\* override has type dsc or udeb.
ValidOverride(o) ==
    /\ o.priority \in DbPriorities
    /\ o.section \in DbSections
    /\ o.component \in DbComponents
    /\ o.type = "udeb" => o.section = "debian-installer"
    /\ o.section = "debian-installer" => o.type \in {"dsc", "udeb"}

Verdicts ==
    /\ all_valid = \A i \in 1..Len(overrides) : ValidOverride(overrides[i])
    /\ \A i \in 1..Len(overrides) :
          valid[i] = IF ValidOverride(overrides[i]) THEN "True" ELSE "False"

\* C19 as claimed: every call of check_valid returns, with True if and only
\* if every override is valid, and with the valid flag of each override set to
\* its verdict.
C19_ReturnsVerdict ==
    vpc \in {"returned", "raised"} => (vpc = "returned" /\ Verdicts)

\* C19 as amended: when every override has type dsc, deb or udeb,
\* check_valid returns True if and only if every override is valid, with the
\* valid flag of each override set to its verdict; an override of another
\* type makes it raise at that override, the later overrides unflagged.
C19_ReturnsVerdictForKnownTypes ==
    /\ vpc = "returned" =>
          /\ \A i \in 1..Len(overrides) : overrides[i].type \in {"dsc", "deb", "udeb"}
          /\ Verdicts
    /\ vpc = "raised" =>
          /\ override_pos \in 1..Len(overrides)
          /\ overrides[override_pos].type \notin {"dsc", "deb", "udeb"}
          /\ \A i \in 1..(override_pos - 1) :
                overrides[i].type \in {"dsc", "deb", "udeb"}
          /\ \A i \in (override_pos + 1)..Len(overrides) : valid[i] = "unset"
    /\ (\A i \in 1..Len(overrides) : overrides[i].type \in {"dsc", "deb", "udeb"}) =>
          vpc # "raised"

\* A valid override followed by a udeb outside debian-installer: False is
\* returned and each flag is the verdict of its override.
C19_Witness ==
    /\ vpc = "returned"
    /\ overrides = << Override("optional", "net", "main", "deb"),
                      Override("optional", "net", "main", "udeb") >>
    /\ valid = <<"True", "False">>
    /\ all_valid = FALSE

(***************************************************************************)
(*                         Properties of send_mail                         *)
(***************************************************************************)

\* The lists that apply to a call: the given ones and the global one.
GivenLists ==
    (IF whitelists_given.none THEN <<>> ELSE whitelists_given.paths)
    \o (IF mail_whitelist # "" THEN <<mail_whitelist>> ELSE <<>>)

\* The line lists the address: it is the address, or it is a regular
\* expression that matches the address.
Lists(line, mail) ==
    \/ line.kind = "plain" /\ line.text = mail
    \/ line.kind = "re" /\ Match(Compile(line), mail)

\* The address is included in at least one of the lists.
Included(mail) ==
    \E i \in 1..Len(GivenLists) :
       \E k \in 1..Len(WhitelistFile(GivenLists[i])) :
          Lists(WhitelistFile(GivenLists[i])[k], mail)

\* The recipients of the To, Cc and Bcc headers.
Recipients(m) ==
    {m.To.items[i] : i \in 1..Len(m.To.items)}
    \cup {m.Cc.items[i] : i \in 1..Len(m.Cc.items)}
    \cup {m.Bcc.items[i] : i \in 1..Len(m.Bcc.items)}

MailEnded == mpc \in {"returned", "sent", "SendmailFailedError"}

\* No element of the given list is None.
PathsGiven ==
    whitelists_given.none \/ \A i \in 1..Len(whitelists_given.paths) :
                                whitelists_given.paths[i] # "None"

\* C20: with whitelists None or empty and no global whitelist no recipient is
\* removed; otherwise a recipient is kept if and only if its address is
\* included in at least one of the lists, the message handed to the sendmail
\* command has no recipient that is in none of the lists, and the command is
\* not run when no recipient remains.
C20_KeptIffIncluded ==
    (MailEnded /\ PathsGiven) =>
       IF GivenLists = <<>>
       THEN msg = message
       ELSE /\ Recipients(msg) = {r \in Recipients(message) : Included(Mail(r))}
            /\ \A r \in Recipients(handed) : Included(Mail(r))
            /\ Recipients(msg) = {} => mpc = "returned"

(***************************************************************************)
(*                       Properties of find_next_free                      *)
(***************************************************************************)

\* The names find_next_free may return: dest, dest.0, ..., dest.(too_many-1).
Candidates == <<orig_dest>> \o [n \in 1..too_many |-> Numbered(orig_dest, n - 1)]

\* The position of the first candidate that does not exist, 0 if all exist.
FirstFree ==
    IF \E i \in 1..Len(Candidates) : Candidates[i] \notin lexists
    THEN CHOOSE i \in 1..Len(Candidates) :
            /\ Candidates[i] \notin lexists
            /\ \A j \in 1..(i - 1) : Candidates[j] \in lexists
    ELSE 0

\* C30: find_next_free ends after asking about at most the too_many + 1
\* candidates; it returns the first of dest, dest.0, ..., dest.(too_many-1)
\* that does not exist, it raises NoFreeFilenameError only when all of them
\* exist, and the path it returns did not exist when it was asked about.
C30_FirstFreeReturned ==
    /\ Len(probed) <= too_many + 1
    /\ fpc = "returned" =>
          /\ FirstFree # 0
          /\ dest = Candidates[FirstFree]
          /\ dest \notin lexists
          /\ probed[Len(probed)] = dest
    /\ fpc = "NoFreeFilenameError" => FirstFree = 0

====
